---------------------------- MODULE Spec2Model ----------------------------
(***************************************************************************)
(* Verification model of the gitm8 backend.                                *)
(*                                                                         *)
(*   SpecBatch   - GitHubGraphQLService: _execute_query, fetch_users_batch,*)
(*                 _fetch_users_batch_light, _fetch_users_sequential,      *)
(*                 get_users_for_analytics_batch                           *)
(*   SpecSession - GitHubGraphQLService.get_session / release_session     *)
(*   SpecLLM     - AsyncGeminiClient.generate                              *)
(*                                                                         *)
(* Every coroutine is cut at its awaits: one action is the code that runs  *)
(* between two suspension points of the asyncio event loop.                *)
(***************************************************************************)
EXTENDS Integers, Sequences, FiniteSets, TLC

VARIABLES
    \* ---- batch fetch (github_graphql_service.py) ----
    usernames,      \* argument of get_users_for_analytics_batch
    bpc,            \* position of the call: start, light, seq_wait, done, failed
    seqIdx,         \* position of the for loop of _fetch_users_sequential (1-based)
    results,        \* the dict `results` / `user_data_map`
    issued,         \* history: single-user queries issued, in order
    completed,      \* history: number of single-user queries answered
    lightOutcome,   \* history: what the upstream did with the light-batch query
    lightError,     \* history: the exception _fetch_users_batch_light raised, or NoError
    lastOutcome,    \* history: upstream outcome of the latest _execute_query
    lastResult,     \* history: what _execute_query made of lastOutcome
    fallbackDone,   \* history: _fetch_users_sequential returned its dict
    raised,         \* the HTTPException that left the call, or NoError
    output,         \* the list returned by get_users_for_analytics_batch
    \* ---- shared ClientSession (github_graphql_service.py) ----
    shared,         \* cls._shared_session: index into sessions, 0 for None
    sessions,       \* every ClientSession constructed so far: "open" or "closed"
    tpc,            \* per task: idle, gs_lock, rs_closing, rs_sleep
    tret,           \* per task: what its latest get_session returned
    calls,          \* history: number of calls started by the tasks
    releaseCalled,  \* history: release_session has been called
    \* ---- AsyncGeminiClient.generate (llm_service.py) ----
    apiKey,         \* settings.google_api_key is set
    maxRetries,     \* argument max_retries
    lpc,            \* start, sending, waiting (in asyncio.sleep), success, failed
    attempt,        \* loop variable of `for attempt in range(max_retries)`
    retryDelay,     \* retry_delay
    lastException,  \* last_exception
    sent,           \* history: number of requests posted
    waits,          \* history: the durations slept, in order
    llog,           \* history: the outcome of each attempt, in order
    lraised,        \* the exception that left generate, or NoError
    ltext,          \* the text generate returned
    \* ---- parse_compatibility_response (llm_service.py) ----
    ptext,          \* the text of the LLM answer, before any wrapping
    pouts,          \* per wrapping: the outcome of the call on the wrapped text
    \* ---- transform_to_analytics_format (github_graphql_service.py) ----
    tinput,         \* the user_data the transformation is given
    horder,         \* per run: the order in which its process iterates tech_keywords
    touts,          \* per run: the profile the transformation returned
    \* ---- UserProfileAnalyzer (analytics_service.py) ----
    aprofiles,      \* the profiles the analyzer was constructed with
    acache,         \* the values _precompute cached
    ametrics,       \* what get_compatibility_metrics returned
    aradar,         \* what get_radar_chart_data returned
    acomparison,    \* what get_comparison_metrics returned
    asummary,       \* per username asked: what get_user_summary returned
    bresult,        \* what create_radar_chart_data returned for other profiles
    \* ---- PortfolioService.get_github_data (portfolio_service.py) ----
    liveData,       \* the data GitHub holds for the user
    cacheMode,      \* the cache collaborator: "absent", "working" or "failing"
    cacheStore,     \* the value stored under the user's key, NoValue if none
    db,             \* the database: whether the user has a portfolio, its snapshot
    gcall,          \* the call in progress: its position and local variables
    gout,           \* the outcome of the last finished call
    gcount,         \* the number of calls started
    \* ---- lifespan and the LLM client helpers (main.py, llm_service.py) ----
    phase,          \* the position of lifespan
    llm_client,     \* the module-level _llm_client
    lifeHist,       \* whether init_llm_client and cleanup_llm_client have run
    gets            \* the calls of get_llm_client so far, with their outcomes

batchVars == <<usernames, bpc, seqIdx, results, issued, completed, lightOutcome,
               lightError, lastOutcome, lastResult, fallbackDone, raised, output>>

sessionVars == <<shared, sessions, tpc, tret, calls, releaseCalled>>

llmVars == <<apiKey, maxRetries, lpc, attempt, retryDelay, lastException, sent,
             waits, llog, lraised, ltext>>

parserVars == <<ptext, pouts>>

transformVars == <<tinput, horder, touts>>

analyzerVars == <<aprofiles, acache, ametrics, aradar, acomparison, asummary, bresult>>

portfolioVars == <<liveData, cacheMode, cacheStore, db, gcall, gout, gcount>>

lifecycleVars == <<phase, llm_client, lifeHist, gets>>

vars == <<batchVars, sessionVars, llmVars, parserVars, transformVars, analyzerVars,
          portfolioVars, lifecycleVars>>

otherThanBatch == <<sessionVars, llmVars, parserVars, transformVars, analyzerVars,
    portfolioVars, lifecycleVars>>

otherThanSession == <<batchVars, llmVars, parserVars, transformVars, analyzerVars,
    portfolioVars, lifecycleVars>>

otherThanLLM == <<batchVars, sessionVars, parserVars, transformVars, analyzerVars,
    portfolioVars, lifecycleVars>>

otherThanParser == <<batchVars, sessionVars, llmVars, transformVars, analyzerVars,
    portfolioVars, lifecycleVars>>

otherThanTransform == <<batchVars, sessionVars, llmVars, parserVars, analyzerVars,
    portfolioVars, lifecycleVars>>

otherThanAnalyzer == <<batchVars, sessionVars, llmVars, parserVars, transformVars,
    portfolioVars, lifecycleVars>>

otherThanPortfolio == <<batchVars, sessionVars, llmVars, parserVars, transformVars,
    analyzerVars, lifecycleVars>>

otherThanLifecycle == <<batchVars, sessionVars, llmVars, parserVars, transformVars,
    analyzerVars, portfolioVars>>

-----------------------------------------------------------------------------
(* Bounds *)

MaxUsers == 3

NumTasks == 3

\* calls of get_session / release_session started in one run
MaxCalls == 4

\* largest max_retries passed to generate
MaxRetriesArg == 6

Users == {"alice", "bob", "ghost"}

-----------------------------------------------------------------------------
(* Python values *)

Null == [null |-> TRUE]

NoError == [status |-> 0, detail |-> <<>>]

HTTPException(status_code, detail) == [status |-> status_code, detail |-> detail]

EmptyDict == [k \in {} |-> Null]

DictSet(d, k, v) == [x \in (DOMAIN d) \cup {k} |-> IF x = k THEN v ELSE d[x]]

\* dict.get(key) on a JSON object held as a sequence of <<key, value>> members
RECURSIVE JsonGet(_, _)
JsonGet(obj, key) ==
    IF obj = <<>> THEN Null
    ELSE IF Head(obj)[1] = key THEN Head(obj)[2]
    ELSE JsonGet(Tail(obj), key)

\* Python truthiness of a user object: None is falsy
Truthy(v) == v # Null

SeqOfLen(S, n) == [1..n -> S]

SeqsUpTo(S, n) == UNION {SeqOfLen(S, k) : k \in 0..n}

Perms(n) == {p \in [1..n -> 1..n] : \A i, j \in 1..n : p[i] = p[j] => i = j}


-----------------------------------------------------------------------------
(* Values of the variables of a component that is not running *)

Tasks == 1..NumTasks

NoReturn == [id |-> -1, open |-> FALSE, viaLock |-> FALSE]

SessionIdle ==
    /\ shared = 0
    /\ sessions = <<>>
    /\ tpc = [t \in Tasks |-> "idle"]
    /\ tret = [t \in Tasks |-> NoReturn]
    /\ calls = 0
    /\ releaseCalled = FALSE

\* llm_service.py lines 23-25
MAX_RETRIES == 3

INITIAL_RETRY_DELAY == 1

MAX_RETRY_DELAY == 8

LLMStart ==
    /\ lpc = "start"
    /\ attempt = 0
    /\ retryDelay = INITIAL_RETRY_DELAY
    /\ lastException = NoError
    /\ sent = 0
    /\ waits = <<>>
    /\ llog = <<>>
    /\ lraised = NoError
    /\ ltext = ""

LLMIdle ==
    /\ apiKey = TRUE
    /\ maxRetries = MAX_RETRIES
    /\ LLMStart

ParserIdle ==
    /\ ptext = <<>>
    /\ pouts = <<>>

TransformIdle ==
    /\ tinput = <<>>
    /\ horder = <<>>
    /\ touts = <<>>

AnalyzerIdle ==
    /\ aprofiles = <<>>
    /\ acache = <<>>
    /\ ametrics = <<>>
    /\ aradar = <<>>
    /\ acomparison = <<>>
    /\ asummary = <<>>
    /\ bresult = <<>>

PortfolioIdle ==
    /\ liveData = <<>>
    /\ cacheMode = "absent"
    /\ cacheStore = <<>>
    /\ db = <<>>
    /\ gcall = <<>>
    /\ gout = <<>>
    /\ gcount = 0

LifecycleIdle ==
    /\ phase = "start"
    /\ llm_client = "None"
    /\ lifeHist = "never"
    /\ gets = <<>>

-----------------------------------------------------------------------------
(* The upstream GraphQL endpoint, as seen by session.post *)

\* HTTP statuses the endpoint answers with besides 200
ErrorStatuses == {400, 401, 403, 404, 500, 502, 503, 504}

Http(status, body) == [kind |-> "http", status |-> status, body |-> body]

NetworkError == [kind |-> "neterr", status |-> 0, body |-> <<>>]

RequestTimeout == [kind |-> "timeout", status |-> 0, body |-> <<>>]

NoOutcome == [kind |-> "none", status |-> 0, body |-> <<>>]

\* the raw user object of a login, as selected by the light or the full query
UserData(login, payload) == [login |-> login, payload |-> payload]

\* values of the top-level "errors" member of a response body
ErrorLists ==
    { <<[message |-> "Could not resolve to a User"]>>,
      <<[message |-> "Something went wrong"], [message |-> "Timeout"]>>,
      <<[type |-> "NOT_FOUND"]>> }

DataBody(data) == << <<"data", data>> >>

ErrorsBody(errors) == << <<"errors", errors>> >>

ErrorsDataBody(errors, data) == << <<"errors", errors>>, <<"data", data>> >>

\* f"user{i}" of line 512 / 581
AliasKey(i) == <<"user", i>>

\* the "data" object of a light-batch answer: one member per alias, in the
\* order the server resolved them, each a user object or null
LightData(us) ==
    LET n == Len(us) IN
    { [k \in 1..n |-> <<AliasKey(p[k] - 1),
                        IF p[k] \in found THEN UserData(us[p[k]], "light") ELSE Null>>]
        : p \in Perms(n), found \in SUBSET (1..n) }

\* the "data" object of a single-user answer
SingleData(u) == { << <<"user", UserData(u, "full")>> >>, << <<"user", Null>> >> }

BodiesOf(datas) ==
    {DataBody(d) : d \in datas}
    \cup {ErrorsBody(e) : e \in ErrorLists}
    \cup {ErrorsDataBody(e, d) : e \in ErrorLists, d \in datas}

OutcomesOf(datas) ==
    {Http(s, <<>>) : s \in ErrorStatuses}
    \cup {Http(200, b) : b \in BodiesOf(datas)}
    \cup {NetworkError, RequestTimeout}

-----------------------------------------------------------------------------
(* GitHubGraphQLService._execute_query *)

RECURSIVE JsonHas(_, _)
JsonHas(obj, key) ==
    IF obj = <<>> THEN FALSE
    ELSE IF Head(obj)[1] = key THEN TRUE
    ELSE JsonHas(Tail(obj), key)

Raise(e) == [ok |-> FALSE, data |-> <<>>, error |-> e]

Return(data) == [ok |-> TRUE, data |-> data, error |-> NoError]

NoResult == [ok |-> FALSE, data |-> <<>>, error |-> NoError]

\* result["errors"][0].get("message", "GraphQL error")
FirstErrorMessage(errors) ==
    IF "message" \in DOMAIN errors[1] THEN errors[1].message ELSE "GraphQL error"

\* variant: a body that carries "data" is returned even when it also carries
\* "errors"
execute_query_data_first(o) ==
    IF o.kind = "neterr" THEN Raise(HTTPException(503, <<"Service unavailable">>))
    ELSE IF o.kind = "timeout" THEN Raise(HTTPException(504, <<"Request timeout">>))
    ELSE IF o.status = 401 THEN Raise(HTTPException(401, <<"Invalid GitHub token">>))
    ELSE IF o.status = 403 THEN Raise(HTTPException(403, <<"Rate limit exceeded">>))
    ELSE IF o.status # 200
        THEN Raise(HTTPException(o.status, <<"GitHub API error: ", o.status>>))
    ELSE IF JsonHas(o.body, "data") THEN Return(JsonGet(o.body, "data"))
    ELSE Raise(HTTPException(400,
                 <<"GraphQL error: ", FirstErrorMessage(JsonGet(o.body, "errors"))>>))

execute_query(o) ==
    IF o.kind = "neterr" THEN Raise(HTTPException(503, <<"Service unavailable">>))
    ELSE IF o.kind = "timeout" THEN Raise(HTTPException(504, <<"Request timeout">>))
    ELSE IF o.status = 401 THEN Raise(HTTPException(401, <<"Invalid GitHub token">>))
    ELSE IF o.status = 403 THEN Raise(HTTPException(403, <<"Rate limit exceeded">>))
    ELSE IF o.status # 200
        THEN Raise(HTTPException(o.status, <<"GitHub API error: ", o.status>>))
    ELSE IF JsonHas(o.body, "errors")
        THEN Raise(HTTPException(400,
                 <<"GraphQL error: ", FirstErrorMessage(JsonGet(o.body, "errors"))>>))
    ELSE Return(JsonGet(o.body, "data"))

-----------------------------------------------------------------------------
(* Batch fetcher *)

\* variant: every 5xx status starts the fallback
fallback_status_any_5xx(status_code) == status_code >= 500

\* variant: 503 left out of the tuple
fallback_status_no_503(status_code) == status_code \in {502, 504}

\* `e.status_code in (502, 503, 504)` of fetch_users_batch
fallback_status(status_code) == status_code \in {502, 503, 504}

\* variant: the i-th member of the answer is taken for the i-th username
RECURSIVE map_light_results_positional(_, _, _, _)
map_light_results_positional(us, data, i, acc) ==
    IF i > Len(us) THEN acc
    ELSE LET user_data == data[i][2] IN
         map_light_results_positional(us, data, i + 1,
             IF Truthy(user_data) THEN DictSet(acc, us[i], user_data) ELSE acc)

\* the loop "Map results back to usernames" of _fetch_users_batch_light
RECURSIVE map_light_results(_, _, _, _)
map_light_results(us, data, i, acc) ==
    IF i > Len(us) THEN acc
    ELSE LET user_data == JsonGet(data, AliasKey(i - 1)) IN
         map_light_results(us, data, i + 1,
             IF Truthy(user_data) THEN DictSet(acc, us[i], user_data) ELSE acc)

\* variant: the loop stops one username early
sequential_has_next_short(i, us) == i < Len(us) - 1

\* `for username in usernames` of _fetch_users_sequential: is there a username
\* after position i
sequential_has_next(i, us) == i < Len(us)

\* variant: every failure is skipped, not only the 404
sequential_step_skips_all(acc, username, r) ==
    IF r.ok
    THEN LET user_data == JsonGet(r.data, "user") IN
         [results |-> IF Truthy(user_data) THEN DictSet(acc, username, user_data) ELSE acc,
          error |-> NoError]
    ELSE [results |-> acc, error |-> NoError]

\* the body of the loop of _fetch_users_sequential for one answered query:
\* the dict afterwards, and the exception that leaves the loop (or NoError)
sequential_step(acc, username, r) ==
    IF r.ok
    THEN LET user_data == JsonGet(r.data, "user") IN
         [results |-> IF Truthy(user_data) THEN DictSet(acc, username, user_data) ELSE acc,
          error |-> NoError]
    ELSE IF r.error.status = 404
         THEN [results |-> acc, error |-> NoError]
         ELSE [results |-> acc, error |-> r.error]

\* transform_to_analytics_format, as far as the batch fetcher depends on it:
\* the profile is keyed by the login of the raw object it was made from
ProfileOf(user_data) == [username |-> user_data.login, made_from |-> user_data.payload]

\* variant: only the first missing username is reported
missing_users_first_only(us, user_data_map) ==
    LET all == SelectSeq(us, LAMBDA u : u \notin DOMAIN user_data_map) IN
    IF all = <<>> THEN <<>> ELSE <<all[1]>>

\* `missing = [u for u in usernames if u not in user_data_map]`
missing_users(us, user_data_map) ==
    SelectSeq(us, LAMBDA u : u \notin DOMAIN user_data_map)

\* get_users_for_analytics_batch after fetch_users_batch has returned
analytics_batch_result(us, user_data_map) ==
    LET missing == missing_users(us, user_data_map) IN
    IF missing # <<>>
    THEN [raised |-> HTTPException(404, <<"Users not found: ", missing>>),
          output |-> <<>>]
    ELSE [raised |-> NoError,
          output |-> [i \in 1..Len(us) |-> ProfileOf(user_data_map[us[i]])]]

SingleQuery(username) == [username |-> username, completedBefore |-> completed]

Finish(user_data_map) ==
    LET a == analytics_batch_result(usernames, user_data_map) IN
    /\ results' = user_data_map
    /\ raised' = a.raised
    /\ output' = a.output
    /\ bpc' = IF a.raised = NoError THEN "done" ELSE "failed"

BatchStart ==
    /\ bpc = "start"
    /\ seqIdx = 0
    /\ results = EmptyDict
    /\ issued = <<>>
    /\ completed = 0
    /\ lightOutcome = NoOutcome
    /\ lightError = NoError
    /\ lastOutcome = NoOutcome
    /\ lastResult = NoResult
    /\ fallbackDone = FALSE
    /\ raised = NoError
    /\ output = <<>>

BatchIdle ==
    /\ usernames = <<>>
    /\ BatchStart

BatchInit ==
    /\ usernames \in SeqsUpTo(Users, MaxUsers)
    /\ BatchStart
    /\ SessionIdle
    /\ LLMIdle
    /\ ParserIdle
    /\ TransformIdle
    /\ AnalyzerIdle
    /\ PortfolioIdle
    /\ LifecycleIdle

\* get_users_for_analytics_batch up to the first await that suspends
CallBatch ==
    /\ bpc = "start"
    /\ IF usernames = <<>>
       THEN Finish(EmptyDict)
       ELSE /\ bpc' = "light"
            /\ UNCHANGED <<results, raised, output>>
    /\ UNCHANGED <<usernames, seqIdx, issued, completed, lightOutcome, lightError,
                   lastOutcome, lastResult, fallbackDone>>
    /\ UNCHANGED otherThanBatch

\* the light-batch request is answered
LightResponse ==
    /\ bpc = "light"
    /\ \E o \in OutcomesOf(LightData(usernames)) :
       LET r == execute_query(o) IN
       /\ lightOutcome' = o
       /\ lightError' = r.error
       /\ lastOutcome' = o
       /\ lastResult' = r
       /\ IF r.ok
          THEN /\ Finish(map_light_results(usernames, r.data, 1, EmptyDict))
               /\ UNCHANGED <<seqIdx, issued>>
          ELSE IF fallback_status(r.error.status)
          THEN /\ bpc' = "seq_wait"
               /\ seqIdx' = 1
               /\ issued' = Append(issued, SingleQuery(usernames[1]))
               /\ results' = EmptyDict
               /\ UNCHANGED <<raised, output>>
          ELSE /\ bpc' = "failed"
               /\ raised' = r.error
               /\ UNCHANGED <<seqIdx, issued, results, output>>
    /\ UNCHANGED <<usernames, completed, fallbackDone>>
    /\ UNCHANGED otherThanBatch

\* the single-user request of the sequential fallback is answered
SequentialResponse ==
    /\ bpc = "seq_wait"
    /\ \E o \in OutcomesOf(SingleData(usernames[seqIdx])) :
       LET r == execute_query(o)
           s == sequential_step(results, usernames[seqIdx], r)
       IN
       /\ lastOutcome' = o
       /\ lastResult' = r
       /\ completed' = completed + 1
       /\ IF s.error # NoError
          THEN /\ bpc' = "failed"
               /\ raised' = s.error
               /\ results' = s.results
               /\ UNCHANGED <<seqIdx, issued, fallbackDone, output>>
          ELSE IF sequential_has_next(seqIdx, usernames)
          THEN /\ seqIdx' = seqIdx + 1
               /\ issued' = Append(issued,
                      [username |-> usernames[seqIdx + 1],
                       completedBefore |-> completed + 1])
               /\ results' = s.results
               /\ UNCHANGED <<bpc, fallbackDone, raised, output>>
          ELSE /\ fallbackDone' = TRUE
               /\ Finish(s.results)
               /\ UNCHANGED <<seqIdx, issued>>
    /\ UNCHANGED <<usernames, lightOutcome, lightError>>
    /\ UNCHANGED otherThanBatch

BatchNext ==
    \/ CallBatch
    \/ LightResponse
    \/ SequentialResponse

SpecBatch == BatchInit /\ [][BatchNext]_vars

-----------------------------------------------------------------------------
(* Properties of the batch fetcher *)

Range(seq) == {seq[i] : i \in 1..Len(seq)}

\* C1: when the light-batch query fails with an upstream 502, 503 or 504 and
\* the sequential fallback runs to aggregation, exactly N single-user queries
\* have been issued for N usernames, one per username in input order, each
\* started only after all the earlier ones were answered; at no time are two
\* single-user queries in flight.
C1_FallbackIssuesExactlyN ==
    /\ Len(issued) - completed \in {0, 1}
    /\ (/\ lightOutcome.kind = "http"
        /\ lightOutcome.status \in {502, 503, 504}
        /\ fallbackDone)
       => /\ Len(issued) = Len(usernames)
          /\ completed = Len(usernames)
          /\ \A i \in 1..Len(issued) :
                /\ issued[i].username = usernames[i]
                /\ issued[i].completedBefore = i - 1

C1_Witness ==
    /\ lightOutcome.kind = "http"
    /\ lightOutcome.status = 503
    /\ fallbackDone
    /\ Len(usernames) >= 2
    /\ usernames[1] # usernames[2]

\* C2: when the light-batch query fails with a status outside {502, 503, 504}
\* (401, 403, 400 query error, 500, ...), no single-user query is issued and
\* the very same error (status and message) reaches the caller.
C2_OtherStatusPropagates ==
    (lightError # NoError /\ lightError.status \notin {502, 503, 504})
    => /\ issued = <<>>
       /\ bpc = "failed"
       /\ raised = lightError
       /\ lightOutcome.kind = "http"
       /\ lightOutcome.status # 200 => raised.status = lightOutcome.status
       /\ lightOutcome.status = 200 => raised.status = 400

C2_Witness ==
    /\ lightOutcome.kind = "http"
    /\ lightOutcome.status = 500
    /\ bpc = "failed"
    /\ raised.status = 500

\* C3 as claimed: a light-batch attempt that fails with a network-level error
\* or a request timeout propagates directly to the caller and no single-user
\* query is issued.
C3_NetworkErrorPropagates ==
    lightOutcome.kind \in {"neterr", "timeout"}
    => /\ issued = <<>>
       /\ bpc = "failed"
       /\ raised = lightError

\* C3 (amended): the sequential fallback is started exactly by a light-batch
\* failure whose HTTPException status is 502, 503 or 504; a network-level
\* error is raised as 503 and a request timeout as 504, so both start the
\* fallback and the first single-user query is issued.
C3_FallbackOnStatusOrNetwork ==
    /\ lightError # NoError
       => (issued # <<>> <=> lightError.status \in {502, 503, 504})
    /\ lightOutcome.kind = "neterr"
       => lightError.status = 503 /\ issued # <<>> /\ issued[1].username = usernames[1]
    /\ lightOutcome.kind = "timeout"
       => lightError.status = 504 /\ issued # <<>> /\ issued[1].username = usernames[1]

C3_Witness ==
    /\ lightOutcome.kind = "neterr"
    /\ issued # <<>>
    /\ fallbackDone

\* fetch_users_batch has returned a dict to get_users_for_analytics_batch
FetchReturned ==
    /\ bpc \in {"done", "failed"}
    /\ lightError = NoError \/ fallbackDone

\* C4: get_users_for_analytics_batch never returns a partial result: once the
\* fetch has returned, if some requested username has no user data the call
\* fails with 404 "Users not found" naming every missing username and no
\* found one; profiles are returned only when every username was found.
C4_NoPartialResult ==
    /\ FetchReturned =>
         LET missing == {u \in Range(usernames) : u \notin DOMAIN results} IN
         IF missing # {}
         THEN /\ bpc = "failed"
              /\ raised.status = 404
              /\ raised.detail[1] = "Users not found: "
              /\ Range(raised.detail[2]) = missing
              /\ output = <<>>
         ELSE /\ bpc = "done"
              /\ raised = NoError
    /\ bpc = "done" => Range(usernames) \subseteq DOMAIN results
    /\ bpc # "done" => output = <<>>

C4_Witness ==
    /\ FetchReturned
    /\ fallbackDone
    /\ bpc = "failed"
    /\ Len(usernames) = 3
    /\ Cardinality(DOMAIN results) = 1
    /\ Cardinality(Range(raised.detail[2])) = 2

\* C5: whenever get_users_for_analytics_batch succeeds, by the light batch or
\* by the fallback, it returns exactly N profiles and the i-th profile is the
\* one fetched for the i-th requested username, whatever the order in which
\* the upstream resolved the users.
C5_ProfilesInInputOrder ==
    bpc = "done"
    => /\ Len(output) = Len(usernames)
       /\ \A i \in 1..Len(usernames) :
             /\ output[i].username = usernames[i]
             /\ output[i].made_from = IF fallbackDone THEN "full" ELSE "light"

C5_Witness ==
    /\ bpc = "done"
    /\ ~fallbackDone
    /\ Len(usernames) >= 2
    /\ usernames[1] # usernames[2]
    /\ JsonGet(lightOutcome.body, "data")[1][1] # AliasKey(0)

\* C6: _execute_query maps every upstream outcome to exactly one result:
\* 401 -> credential failure (401); 403 -> quota failure (403); any other
\* status that is not the success status -> failure carrying that status; a
\* success whose body has a top-level "errors" array -> query failure (400)
\* carrying the first error's message, even when "data" is present too;
\* network error -> 503, timeout -> 504; "data" is returned only for a
\* success without "errors".
C6_OutcomeMapping ==
    lastOutcome # NoOutcome =>
      LET o == lastOutcome
          r == lastResult
          hasErrors == \E k \in 1..Len(o.body) : o.body[k][1] = "errors"
          errors == (CHOOSE k \in 1..Len(o.body) : o.body[k][1] = "errors")
          data == (CHOOSE k \in 1..Len(o.body) : o.body[k][1] = "data")
      IN
      /\ o.kind = "neterr" => ~r.ok /\ r.error.status = 503
      /\ o.kind = "timeout" => ~r.ok /\ r.error.status = 504
      /\ (o.kind = "http" /\ o.status = 401)
            => ~r.ok /\ r.error = HTTPException(401, <<"Invalid GitHub token">>)
      /\ (o.kind = "http" /\ o.status = 403)
            => ~r.ok /\ r.error = HTTPException(403, <<"Rate limit exceeded">>)
      /\ (o.kind = "http" /\ o.status \notin {200, 401, 403})
            => ~r.ok /\ r.error.status = o.status
      /\ (o.kind = "http" /\ o.status = 200 /\ hasErrors)
            => /\ ~r.ok
               /\ r.error.status = 400
               /\ r.error.detail[1] = "GraphQL error: "
               /\ LET first == o.body[errors][2][1] IN
                  "message" \in DOMAIN first => r.error.detail[2] = first.message
      /\ (o.kind = "http" /\ o.status = 200 /\ ~hasErrors)
            => r.ok /\ r.data = o.body[data][2] /\ r.error = NoError
      /\ r.ok => (o.kind = "http" /\ o.status = 200 /\ ~hasErrors)

C6_Witness ==
    /\ lastOutcome.kind = "http"
    /\ lastOutcome.status = 200
    /\ JsonHas(lastOutcome.body, "errors")
    /\ JsonHas(lastOutcome.body, "data")
    /\ Len(JsonGet(lastOutcome.body, "errors")) = 2
    /\ lastResult.error = HTTPException(400, <<"GraphQL error: ", "Something went wrong">>)

-----------------------------------------------------------------------------
(* GitHubGraphQLService.get_session / release_session                      *)
(*                                                                         *)
(* Tasks of one event loop call the two classmethods.  _session_lock is    *)
(* only ever held by code without an await, so at every scheduling point   *)
(* it is free; a task that has to take it may be descheduled before it     *)
(* gets it (pc gs_lock).  session.close() marks the session closed at      *)
(* once and may or may not suspend the caller before it returns.           *)

\* `cls._shared_session is None or cls._shared_session.closed`
session_missing(s, ss) == s = 0 \/ ss[s] = "closed"

\* variant: the re-check under the lock is left out
recheck_under_lock_always(s, ss) == TRUE

\* line 75: the same test again, once the lock is held
recheck_under_lock(s, ss) == session_missing(s, ss)

\* what get_session hands back: cls._shared_session as it is at the return
Returned(s, ss, viaLock) ==
    [id |-> s, open |-> (s # 0 /\ ss[s] = "open"), viaLock |-> viaLock]

BeginCall(t) ==
    /\ tpc[t] = "idle"
    /\ calls < MaxCalls
    /\ calls' = calls + 1

\* get_session, line 73: the fast path returns the open shared session, the
\* slow path goes for the lock
GetSessionCheck(t) ==
    /\ BeginCall(t)
    /\ IF session_missing(shared, sessions)
       THEN /\ tpc' = [tpc EXCEPT ![t] = "gs_lock"]
            /\ UNCHANGED tret
       ELSE /\ tret' = [tret EXCEPT ![t] = Returned(shared, sessions, FALSE)]
            /\ UNCHANGED tpc
    /\ UNCHANGED <<shared, sessions, releaseCalled>>
    /\ UNCHANGED otherThanSession

\* get_session, lines 74-90: lock taken, re-check, construct, lock released,
\* return
GetSessionLocked(t) ==
    /\ tpc[t] = "gs_lock"
    /\ IF recheck_under_lock(shared, sessions)
       THEN /\ sessions' = Append(sessions, "open")
            /\ shared' = Len(sessions) + 1
       ELSE UNCHANGED <<shared, sessions>>
    /\ tret' = [tret EXCEPT ![t] = Returned(shared', sessions', TRUE)]
    /\ tpc' = [tpc EXCEPT ![t] = "idle"]
    /\ UNCHANGED <<calls, releaseCalled>>
    /\ UNCHANGED otherThanSession

\* release_session, lines 95-96: nothing to do, or close() is called; close()
\* either returns without yielding (line 97 runs at once) or suspends
ReleaseSessionCall(t) ==
    /\ BeginCall(t)
    /\ releaseCalled' = TRUE
    /\ IF shared # 0 /\ sessions[shared] = "open"
       THEN /\ sessions' = [sessions EXCEPT ![shared] = "closed"]
            /\ \/ /\ tpc' = [tpc EXCEPT ![t] = "rs_closing"]
                  /\ UNCHANGED shared
               \/ /\ tpc' = [tpc EXCEPT ![t] = "rs_sleep"]
                  /\ shared' = 0
       ELSE UNCHANGED <<shared, sessions, tpc>>
    /\ UNCHANGED tret
    /\ UNCHANGED otherThanSession

\* release_session, line 97-98, after close() resumed
ReleaseSessionClosed(t) ==
    /\ tpc[t] = "rs_closing"
    /\ shared' = 0
    /\ tpc' = [tpc EXCEPT ![t] = "rs_sleep"]
    /\ UNCHANGED <<sessions, tret, calls, releaseCalled>>
    /\ UNCHANGED otherThanSession

\* release_session, line 98-99, after the sleep
ReleaseSessionDone(t) ==
    /\ tpc[t] = "rs_sleep"
    /\ tpc' = [tpc EXCEPT ![t] = "idle"]
    /\ UNCHANGED <<shared, sessions, tret, calls, releaseCalled>>
    /\ UNCHANGED otherThanSession

SessionInit ==
    /\ SessionIdle
    /\ BatchIdle
    /\ LLMIdle
    /\ ParserIdle
    /\ TransformIdle
    /\ AnalyzerIdle
    /\ PortfolioIdle
    /\ LifecycleIdle

SessionNext ==
    \/ \E t \in Tasks : GetSessionCheck(t)
    \/ \E t \in Tasks : GetSessionLocked(t)
    \/ \E t \in Tasks : ReleaseSessionCall(t)
    \/ \E t \in Tasks : ReleaseSessionClosed(t)
    \/ \E t \in Tasks : ReleaseSessionDone(t)

SpecSession == SessionInit /\ [][SessionNext]_vars

\* C7: as long as no task has called release_session, for any number of tasks
\* calling get_session concurrently with no open shared session at the start,
\* exactly one session is ever constructed and every caller receives that
\* same session, open; no caller receives a closed session or None.
C7_OneSessionForAll ==
    ~releaseCalled
    => /\ Len(sessions) <= 1
       /\ \A t \in Tasks :
            tret[t] # NoReturn
            => /\ Len(sessions) = 1
               /\ tret[t].id = 1
               /\ tret[t].id = shared
               /\ tret[t].open
               /\ sessions[shared] = "open"

C7_Witness ==
    /\ ~releaseCalled
    /\ \A t \in Tasks : tret[t] # NoReturn /\ tpc[t] = "idle"
    /\ Cardinality({t \in Tasks : tret[t].viaLock}) >= 2

-----------------------------------------------------------------------------
(* AsyncGeminiClient.generate *)

\* the Gemini endpoint as seen by session.post: a status with a body, a
\* connection failure (aiohttp.ClientError) or the total timeout of the
\* session (asyncio.TimeoutError, not a ClientError)
LLMHttp(status, body) == [kind |-> "http", status |-> status, body |-> body]

LLMConnectionError == [kind |-> "neterr", status |-> 0, body |-> <<>>]

LLMTimeout == [kind |-> "timeout", status |-> 0, body |-> <<>>]

RetryableStatuses == {429, 500, 502, 503, 504}

OtherStatuses == {400, 401, 403, 404}

Texts == {"A", "B"}

Candidate(parts, finishReason) == [parts |-> parts, finishReason |-> finishReason]

\* bodies of a 200 answer: <<"raw", ...>> is text that json.loads rejects,
\* <<"json", candidates>> an object with that "candidates" array
Bodies200 ==
    { <<"raw", <<>>>>, <<"json", <<>>>> }
    \cup { <<"json", <<Candidate(<<>>, fr)>>>> : fr \in {"STOP", "MAX_TOKENS"} }
    \cup { <<"json", <<Candidate(<<[text |-> t]>>, fr)>>>> :
             t \in Texts, fr \in {"STOP", "MAX_TOKENS"} }
    \cup { <<"json", <<Candidate(<<[inlineData |-> "x"]>>, "STOP")>>>> }

LLMOutcomes ==
    {LLMHttp(200, b) : b \in Bodies200}
    \cup {LLMHttp(st, <<>>) : st \in RetryableStatuses \cup OtherStatuses}
    \cup {LLMConnectionError, LLMTimeout}

AsyncioTimeoutError == [status |-> -1, detail |-> <<"asyncio.TimeoutError">>]

NotConfigured ==
    HTTPException(500,
        <<"GitM8 analysis service is not configured. Please contact support.">>)

Unavailable ==
    HTTPException(503,
        <<"GitM8 analysis service is temporarily unavailable. Please try again in a moment.">>)

Unreachable ==
    HTTPException(503,
        <<"GitM8 couldn't reach the analysis service. Please check your connection and try again.">>)

UnavailableAfterAttempts ==
    HTTPException(503,
        <<"GitM8 analysis service is temporarily unavailable after multiple attempts. Please try again later.">>)

\* variant: every status from 400 up is retried
retryable_status_any_error(status) == status >= 400

\* `response.status in (429, 500, 502, 503, 504)`
retryable_status(status) == status \in {429, 500, 502, 503, 504}

\* `if attempt < max_retries - 1` of lines 291 and 314
may_retry(a, max_retries) == a < max_retries - 1

\* variant: the range is one longer
range_has_next_one_more(a, max_retries) == a + 1 < max_retries + 1

\* `for attempt in range(max_retries)`: is there an iteration after a
range_has_next(a, max_retries) == a + 1 < max_retries

Min(x, y) == IF x <= y THEN x ELSE y

\* variant: the cap is forgotten
next_delay_uncapped(delay) == delay * 2

\* `retry_delay = min(retry_delay * 2, MAX_RETRY_DELAY)`
next_delay(delay) == Min(delay * 2, MAX_RETRY_DELAY)

\* the 200 branch, lines 239-277
parse_gemini_body(body) ==
    IF body[1] = "raw"
    THEN Raise(HTTPException(502,
        <<"GitM8 received an invalid response from the analysis service. Please try again.">>))
    ELSE LET candidates == body[2] IN
    IF candidates = <<>>
    THEN Raise(HTTPException(502,
        <<"GitM8 analysis service returned an empty response. Please try again.">>))
    ELSE IF candidates[1].parts = <<>>
    THEN Raise(HTTPException(502,
        <<"GitM8 analysis service returned an incomplete response. Please try again.">>))
    ELSE IF candidates[1].finishReason = "MAX_TOKENS"
    THEN Raise(HTTPException(502,
        <<"GitM8 analysis was too complex and exceeded limits. Please try with fewer users.">>))
    ELSE Return(IF "text" \in DOMAIN candidates[1].parts[1]
                THEN candidates[1].parts[1].text ELSE "")

\* one pass through the try block for an answered request: what the attempt
\* does ("return", "raise" or "retry") and with which text or exception
attempt_result(o) ==
    IF o.kind = "neterr" THEN [do |-> "retry", text |-> "", error |-> Unreachable]
    ELSE IF o.kind = "timeout"
        THEN [do |-> "raise", text |-> "", error |-> AsyncioTimeoutError]
    ELSE IF o.status = 200
        THEN LET r == parse_gemini_body(o.body) IN
             IF r.ok THEN [do |-> "return", text |-> r.data, error |-> NoError]
             ELSE [do |-> "raise", text |-> "", error |-> r.error]
    ELSE IF retryable_status(o.status)
        THEN [do |-> "retry", text |-> "", error |-> Unavailable]
    ELSE [do |-> "raise", text |-> "",
          error |-> HTTPException(502,
              <<"GitM8 analysis service encountered an error (code: ", o.status,
                "). Please try again.">>)]

\* lines 323-330
exhausted(last_exception) ==
    IF last_exception # NoError THEN last_exception ELSE UnavailableAfterAttempts

LLMInit ==
    /\ apiKey \in BOOLEAN
    /\ maxRetries \in 0..MaxRetriesArg
    /\ LLMStart
    /\ BatchIdle
    /\ SessionIdle
    /\ ParserIdle
    /\ TransformIdle
    /\ AnalyzerIdle
    /\ PortfolioIdle
    /\ LifecycleIdle

\* generate up to its first await
CallGenerate ==
    /\ lpc = "start"
    /\ IF ~apiKey
       THEN /\ lpc' = "failed"
            /\ lraised' = NotConfigured
            /\ UNCHANGED sent
       ELSE IF maxRetries > 0
       THEN /\ lpc' = "sending"
            /\ sent' = sent + 1
            /\ UNCHANGED lraised
       ELSE /\ lpc' = "failed"
            /\ lraised' = exhausted(lastException)
            /\ UNCHANGED sent
    /\ UNCHANGED <<apiKey, maxRetries, attempt, retryDelay, lastException, waits,
                   llog, ltext>>
    /\ UNCHANGED otherThanLLM

\* the posted request is answered (or fails)
LLMResponse ==
    /\ lpc = "sending"
    /\ \E o \in LLMOutcomes :
       LET r == attempt_result(o) IN
       /\ llog' = Append(llog, o)
       /\ IF r.do = "return"
          THEN /\ lpc' = "success"
               /\ ltext' = r.text
               /\ UNCHANGED <<attempt, lastException, sent, waits, lraised>>
          ELSE IF r.do = "raise"
          THEN /\ lpc' = "failed"
               /\ lraised' = r.error
               /\ UNCHANGED <<attempt, lastException, sent, waits, ltext>>
          ELSE /\ lastException' = r.error
               /\ IF may_retry(attempt, maxRetries)
                  THEN /\ lpc' = "waiting"
                       /\ waits' = Append(waits, retryDelay)
                       /\ UNCHANGED <<attempt, sent, lraised, ltext>>
                  ELSE IF range_has_next(attempt, maxRetries)
                  THEN /\ attempt' = attempt + 1
                       /\ sent' = sent + 1
                       /\ UNCHANGED <<lpc, waits, lraised, ltext>>
                  ELSE /\ lpc' = "failed"
                       /\ lraised' = exhausted(r.error)
                       /\ UNCHANGED <<attempt, sent, waits, ltext>>
    /\ UNCHANGED <<apiKey, maxRetries, retryDelay>>
    /\ UNCHANGED otherThanLLM

\* asyncio.sleep(retry_delay) is over: double the delay, `continue`
LLMWakeUp ==
    /\ lpc = "waiting"
    /\ retryDelay' = next_delay(retryDelay)
    /\ IF range_has_next(attempt, maxRetries)
       THEN /\ attempt' = attempt + 1
            /\ sent' = sent + 1
            /\ lpc' = "sending"
            /\ UNCHANGED lraised
       ELSE /\ lpc' = "failed"
            /\ lraised' = exhausted(lastException)
            /\ UNCHANGED <<attempt, sent>>
    /\ UNCHANGED <<apiKey, maxRetries, lastException, waits, llog, ltext>>
    /\ UNCHANGED otherThanLLM

LLMNext ==
    \/ CallGenerate
    \/ LLMResponse
    \/ LLMWakeUp

SpecLLM == LLMInit /\ [][LLMNext]_vars

-----------------------------------------------------------------------------
(* Properties of generate *)

RECURSIVE Pow2(_)
Pow2(n) == IF n = 0 THEN 1 ELSE 2 * Pow2(n - 1)

Transient(o) ==
    \/ o.kind = "neterr"
    \/ o.kind = "http" /\ o.status \in {429, 500, 502, 503, 504}

LLMTerminal == lpc \in {"success", "failed"}

\* C8: generate never sends more than max_retries requests; when every
\* attempt ends in 429/500/502/503/504 or in a connection error, in any mix,
\* it sends exactly max_retries requests and then fails with a 503; a
\* connection error uses up an attempt and a backoff wait just as a
\* retryable status does.
C8_BoundedAttempts ==
    /\ sent <= maxRetries
    /\ Len(llog) <= sent
    /\ (apiKey /\ LLMTerminal /\ \A k \in 1..Len(llog) : Transient(llog[k]))
       => /\ lpc = "failed"
          /\ sent = maxRetries
          /\ Len(llog) = maxRetries
          /\ lraised.status = 503
          /\ Len(waits) = IF maxRetries = 0 THEN 0 ELSE maxRetries - 1
    /\ \A k \in 1..Len(llog) :
          (Transient(llog[k]) /\ k < maxRetries) => Len(waits) >= k

C8_Witness ==
    /\ lpc = "failed"
    /\ maxRetries = MAX_RETRIES
    /\ sent = MAX_RETRIES
    /\ lraised.status = 503
    /\ \E i, j \in 1..Len(llog) : llog[i].kind = "neterr" /\ llog[j].kind = "http"

\* C9: the wait after the k-th failed retryable attempt is min(2^(k-1), 8)
\* time-units, and a wait happens only when a further attempt follows (none
\* after the last attempt, none after a success); outcomes 503, 503, 200 give
\* exactly 3 attempts, waits of 1 then 2, and a Success carrying the text of
\* the 200 answer.
C9_Backoff ==
    /\ \A k \in 1..Len(waits) :
          /\ waits[k] = Min(Pow2(k - 1), 8)
          /\ Transient(llog[k])
          /\ k < maxRetries
    /\ lpc = "waiting" => Len(waits) = sent /\ sent < maxRetries
    /\ (lpc \in {"sending", "success", "failed"} /\ sent >= 1)
          => Len(waits) = sent - 1
    /\ (/\ LLMTerminal
        /\ Len(llog) = 3
        /\ llog[1] = LLMHttp(503, <<>>)
        /\ llog[2] = LLMHttp(503, <<>>)
        /\ llog[3].status = 200
        /\ llog[3].body[1] = "json"
        /\ llog[3].body[2] # <<>>
        /\ llog[3].body[2][1].finishReason = "STOP"
        /\ llog[3].body[2][1].parts # <<>>
        /\ "text" \in DOMAIN llog[3].body[2][1].parts[1])
       => /\ lpc = "success"
          /\ sent = 3
          /\ waits = <<1, 2>>
          /\ ltext = llog[3].body[2][1].parts[1].text

C9_Witness ==
    /\ lpc = "sending"
    /\ waits = <<1, 2, 4, 8, 8>>
    /\ sent = 6

\* C10: an attempt that ends in a status other than 200 and outside
\* {429, 500, 502, 503, 504}, or in a 200 answer truncated by MAX_TOKENS, or
\* in a 200 answer with an unparsable body, no candidates or no content
\* parts, ends the call as Failed on that attempt: no further request, no
\* backoff wait, whatever the attempt number.
FatalAnswer(o) ==
    /\ o.kind = "http"
    /\ \/ o.status \notin {200, 429, 500, 502, 503, 504}
       \/ /\ o.status = 200
          /\ \/ o.body[1] = "raw"
             \/ o.body[2] = <<>>
             \/ o.body[2][1].parts = <<>>
             \/ o.body[2][1].finishReason = "MAX_TOKENS"

C10_FatalEndsCall ==
    \A k \in 1..Len(llog) :
       FatalAnswer(llog[k])
       => /\ lpc = "failed"
          /\ k = Len(llog)
          /\ sent = k
          /\ Len(waits) = k - 1
          /\ lraised.status = 502

C10_Witness ==
    /\ Len(llog) = 2
    /\ llog[2].status = 200
    /\ llog[2].body[1] = "json"
    /\ llog[2].body[2] # <<>>
    /\ llog[2].body[2][1].parts # <<>>
    /\ llog[2].body[2][1].finishReason = "MAX_TOKENS"
    /\ maxRetries >= 3
    /\ lpc = "failed"

\* C11: a timeout of a request attempt is handled like any other transient
\* failure: while attempts remain generate waits the backoff delay and sends
\* again, and when every attempt times out it ends Failed with the 503
\* "service unavailable" error after max_retries attempts.
C11_TimeoutRetried ==
    /\ \A k \in 1..Len(llog) :
          (llog[k].kind = "timeout" /\ k < maxRetries) => Len(waits) >= k
    /\ (/\ apiKey
        /\ LLMTerminal
        /\ llog # <<>>
        /\ \A k \in 1..Len(llog) : llog[k].kind = "timeout")
       => /\ sent = maxRetries
          /\ lraised.status = 503

-----------------------------------------------------------------------------
\* parse_compatibility_response (llm_service.py 333-426).
\*
\* A text is a sequence of tokens.  The tokens are the characters the two
\* regular expressions tell apart ("{", "}", the ``` fence, the word json,
\* white space) plus the quote that delimits a JSON string, a number literal,
\* any other run of characters, and "members": the serialised members
\* `"score": ..., "reasoning": ..., "compatibility_factors": [...],` of an
\* object, a run of text that neither starts with "{" nor ends with "}" and
\* holds no fence, carried with the values json.loads reads from it.

MaxContentLen == 2

Absent == [t |-> "absent", v |-> 0]

AbsentText == [t |-> "absent", len |-> 0]

AbsentList == [t |-> "absent", items |-> <<>>]

NoMembers == [score |-> Absent, reasoning |-> AbsentText, compatibility_factors |-> AbsentList]

Tok(c) == [c |-> c, d |-> NoMembers]

LB == Tok("{")

RB == Tok("}")

FENCE == Tok("fence")

JSONWORD == Tok("json")

WS == Tok(" ")

QUOTE == Tok("\"")

NUM == Tok("5")

CHARS == Tok("x")

Members(d) == [c |-> "members", d |-> d]

\* the labels the prompt asks for (compatibility_prompts.py 95-117)
PromptLabels == <<"Shared Languages", "Project Sizes", "Contribution Activity", "Activity Heat">>

FactorDict(keys, label) == [t |-> "dict", keys |-> keys, label |-> label, indicator |-> "about " \o label]

NotADict == [t |-> "str", keys |-> {}, label |-> "", indicator |-> ""]

FactorList(items) == [t |-> "list", items |-> items]

PromptFactors == [i \in 1..4 |-> FactorDict({"label", "indicator"}, PromptLabels[i])]

\* the values an answer can carry for each of the three members
ScoreValues ==
    {Absent}
    \cup {[t |-> "int", v |-> n] : n \in {0, 1, 7, 10, 11}}
    \cup {[t |-> "str", v |-> 7], [t |-> "str", v |-> 11], [t |-> "nonnumeric", v |-> 0]}

ReasoningValues == {AbsentText, [t |-> "str", len |-> 40], [t |-> "str", len |-> 5]}

FactorValues ==
    {AbsentList, [t |-> "str", items |-> <<>>]}
    \cup { FactorList(items) : items \in
            { PromptFactors,
              [i \in 1..4 |-> FactorDict({"label", "indicator"}, PromptLabels[5 - i])],
              [i \in 1..4 |-> FactorDict({"label", "indicator", "explanation"}, PromptLabels[i])],
              [i \in 1..4 |-> FactorDict({"label", "explanation"}, PromptLabels[i])],
              [PromptFactors EXCEPT ![1] = FactorDict({"indicator"}, "")],
              [PromptFactors EXCEPT ![2] = FactorDict({"label"}, PromptLabels[2])],
              [PromptFactors EXCEPT ![3] = NotADict],
              SubSeq(PromptFactors, 1, 3),
              <<PromptFactors[1], PromptFactors[3], PromptFactors[4]>>,
              PromptFactors \o <<FactorDict({"label", "indicator"}, "Extra")>>,
              <<>> } }

MemberValues == [score : ScoreValues, reasoning : ReasoningValues, compatibility_factors : FactorValues]

\* what a JSON string can hold between its quotes
Contents == SeqsUpTo({LB, RB, FENCE, WS, CHARS}, MaxContentLen)

PromptAnswer == [score |-> [t |-> "int", v |-> 7], reasoning |-> [t |-> "str", len |-> 40], compatibility_factors |-> FactorList(PromptFactors)]

\* the answers: a JSON object with the members alone, a JSON object with one
\* more member whose value is a string, object texts that are not valid JSON,
\* and texts that hold no object at all
ObjectTexts ==
    { <<LB, Members(d), RB>> : d \in MemberValues }
    \cup { <<LB, Members(d), QUOTE>> \o c \o <<QUOTE, RB>> :
            d \in {PromptAnswer, [PromptAnswer EXCEPT !.score = Absent]}, c \in Contents }
    \cup { <<LB, RB>>, <<LB, CHARS, RB>>, <<LB, Members(PromptAnswer), QUOTE, RB>>,
           <<LB, Members(PromptAnswer), LB, RB, RB>> }

PlainTexts == { <<NUM>>, <<WS, NUM, WS>>, <<CHARS>>, <<>> }

AnswerTexts == ObjectTexts \cup PlainTexts

Wrappings == {"bare", "fence_json", "fence", "prose"}

Wrap(w, text) ==
    CASE w = "bare"       -> text
      [] w = "fence_json" -> <<FENCE, JSONWORD, WS>> \o text \o <<WS, FENCE>>
      [] w = "fence"      -> <<FENCE, WS>> \o text \o <<WS, FENCE>>
      [] w = "prose"      -> <<CHARS, WS>> \o text \o <<WS, CHARS>>

\* \s* : the first position from i on that holds no white space
RECURSIVE SkipWs(_, _)
SkipWs(toks, i) ==
    IF i <= Len(toks) /\ toks[i] = WS THEN SkipWs(toks, i + 1) ELSE i

NoMatch == [found |-> FALSE, text |-> <<>>]

Match(text) == [found |-> TRUE, text |-> text]

SetMin(S) == CHOOSE m \in S : \A n \in S : m <= n

SetMax(S) == CHOOSE m \in S : \A n \in S : m >= n

\* the "}" positions at which  \}\s*```  matches
closes_before_fence(toks, e) ==
    /\ toks[e] = RB
    /\ LET f == SkipWs(toks, e + 1) IN f <= Len(toks) /\ toks[f] = FENCE

\* ```(?:json)?\s*(\{.*?\})\s*```  tried at position i: group 1
fenced_match_at(toks, i) ==
    IF toks[i] # FENCE THEN NoMatch
    ELSE LET a == IF i + 1 <= Len(toks) /\ toks[i + 1] = JSONWORD THEN i + 2 ELSE i + 1
             b == SkipWs(toks, a)
         IN  IF b > Len(toks) \/ toks[b] # LB THEN NoMatch
             ELSE LET ends == {e \in (b + 1)..Len(toks) : closes_before_fence(toks, e)}
                  IN  IF ends = {} THEN NoMatch
                      ELSE Match(SubSeq(toks, b, SetMin(ends)))

\* re.search: the leftmost position at which the pattern matches
fenced_search(toks) ==
    LET starts == {i \in 1..Len(toks) : fenced_match_at(toks, i).found}
    IN  IF starts = {} THEN NoMatch ELSE fenced_match_at(toks, SetMin(starts))

\* \{.*\}  : from the first "{" to the last "}" after it
object_search(toks) ==
    LET opens == {i \in 1..Len(toks) : toks[i] = LB}
    IN  IF opens = {} THEN NoMatch
        ELSE LET b == SetMin(opens)
                 closes == {e \in (b + 1)..Len(toks) : toks[e] = RB}
             IN  IF closes = {} THEN NoMatch
                 ELSE Match(SubSeq(toks, b, SetMax(closes)))

\* str.strip()
strip(toks) ==
    LET keep == {i \in 1..Len(toks) : toks[i] # WS}
    IN  IF keep = {} THEN <<>> ELSE SubSeq(toks, SetMin(keep), SetMax(keep))

\* lines 348-357: the text handed to json.loads and the branch that chose it
extract_json(raw) ==
    LET fenced == fenced_search(raw)
        object == object_search(raw)
    IN  IF fenced.found THEN [via |-> "fenced", text |-> fenced.text]
        ELSE IF object.found THEN [via |-> "object", text |-> object.text]
        ELSE [via |-> "whole", text |-> strip(raw)]
Invalid == [kind |-> "invalid", d |-> NoMembers]

\* a later member of the same name replaces an earlier one
MergeMembers(d, e) ==
    [score                 |-> IF e.score.t # "absent" THEN e.score ELSE d.score,
     reasoning             |-> IF e.reasoning.t # "absent" THEN e.reasoning ELSE d.reasoning,
     compatibility_factors |-> IF e.compatibility_factors.t # "absent"
                               THEN e.compatibility_factors ELSE d.compatibility_factors]

\* the members of an object, read from the tokens between its braces: strings
\* hold any characters up to the closing quote, nested objects must balance,
\* and nothing but members, strings, objects and white space may appear
RECURSIVE scan_object(_, _, _, _, _)
scan_object(toks, i, inString, depth, d) ==
    IF i > Len(toks) THEN (IF ~inString /\ depth = 0 THEN [kind |-> "object", d |-> d] ELSE Invalid)
    ELSE IF inString THEN scan_object(toks, i + 1, toks[i] # QUOTE, depth, d)
    ELSE IF toks[i] = QUOTE THEN scan_object(toks, i + 1, TRUE, depth, d)
    ELSE IF toks[i] = WS THEN scan_object(toks, i + 1, FALSE, depth, d)
    ELSE IF toks[i].c = "members"
         THEN scan_object(toks, i + 1, FALSE, depth,
                          IF depth = 0 THEN MergeMembers(d, toks[i].d) ELSE d)
    ELSE IF toks[i] = LB THEN scan_object(toks, i + 1, FALSE, depth + 1, d)
    ELSE IF toks[i] = RB /\ depth > 0 THEN scan_object(toks, i + 1, FALSE, depth - 1, d)
    ELSE Invalid

\* json.loads (line 360): an object, a number, or JSONDecodeError
json_loads(text) ==
    LET t == strip(text)
    IN  IF t = <<NUM>> THEN [kind |-> "number", d |-> NoMembers]
        ELSE IF Len(t) >= 2 /\ t[1] = LB /\ t[Len(t)] = RB
             THEN scan_object(SubSeq(t, 2, Len(t) - 1), 1, FALSE, 0, NoMembers)
        ELSE Invalid

NoCompatibilityResponse == [score |-> 0, reasoning |-> AbsentText, compatibility_factors |-> <<>>]

ParseReturned(r) == [kind |-> "result", status |-> 0, detail |-> "", error |-> "", result |-> r]

ParseFailed(status_code, detail) ==
    [kind |-> "http", status |-> status_code, detail |-> detail, error |-> "HTTPException",
     result |-> NoCompatibilityResponse]

ParseEscaped(exception) ==
    [kind |-> "exception", status |-> 0, detail |-> "", error |-> exception,
     result |-> NoCompatibilityResponse]

Malformed == "GitM8 received a malformed response from the analysis service. Please try again."

MissingDetail(field) ==
    CASE field = "score"                 -> "GitM8 analysis is incomplete (missing score). Please try again."
      [] field = "reasoning"             -> "GitM8 analysis is incomplete (missing reasoning). Please try again."
      [] field = "compatibility_factors" -> "GitM8 analysis is incomplete (missing factors). Please try again."

UnexpectedFormat == "GitM8 analysis returned an unexpected format. Please try again."

InvalidFactorData == "GitM8 analysis contains invalid factor data. Please try again."

ValidationFailed == "GitM8 analysis validation failed"

RequiredFields == <<"score", "reasoning", "compatibility_factors">>

\* variant: reasoning is looked for before score
first_missing_reasoning_first(d) ==
    LET order == <<"reasoning", "score", "compatibility_factors">>
        missing == {i \in 1..3 : d[order[i]].t = "absent"}
    IN  IF missing = {} THEN "" ELSE order[SetMin(missing)]

\* lines 369-388: the first of the three `not in data` tests that fires
first_missing(d) ==
    LET missing == {i \in 1..3 : d[RequiredFields[i]].t = "absent"}
    IN  IF missing = {} THEN "" ELSE RequiredFields[SetMin(missing)]

\* variant: a shorter list is let through
factors_shape_ok_at_most_4(factors_data) ==
    factors_data.t = "list" /\ Len(factors_data.items) <= 4

\* line 391: isinstance(factors_data, list) and len(factors_data) == 4
factors_shape_ok(factors_data) ==
    factors_data.t = "list" /\ Len(factors_data.items) = 4

\* models.py 10-13: both fields of CompatibilityFactor are required
CompatibilityFactorFields == {"label", "explanation"}

\* CompatibilityFactor(**kwargs): pydantic ignores a keyword that names no
\* field and raises ValidationError when a required field is not given
CompatibilityFactor(kwargs) ==
    IF CompatibilityFactorFields \subseteq DOMAIN kwargs
    THEN [error |-> "", factor |-> [label |-> kwargs.label, explanation |-> kwargs.explanation]]
    ELSE [error |-> "ValidationError", factor |-> [label |-> "", explanation |-> ""]]

\* lines 401-404: CompatibilityFactor(label=f["label"], indicator=f["indicator"])
factor_of(f) ==
    IF f.t # "dict" THEN [error |-> "TypeError", factor |-> [label |-> "", explanation |-> ""]]
    ELSE IF ~({"label", "indicator"} \subseteq f.keys)
         THEN [error |-> "KeyError", factor |-> [label |-> "", explanation |-> ""]]
    ELSE CompatibilityFactor([label |-> f.label, indicator |-> f.indicator])

\* lines 400-406: the list comprehension stops at the first element that raises
build_factors(items) ==
    LET raising == {i \in 1..Len(items) : factor_of(items[i]).error # ""}
    IN  IF raising = {} THEN [error |-> "", factors |-> [i \in 1..Len(items) |-> factor_of(items[i]).factor]]
        ELSE [error |-> factor_of(items[SetMin(raising)]).error, factors |-> <<>>]

\* lines 39-50: the `before` validator of score
clamp_score(v) ==
    IF v.t = "nonnumeric" THEN [error |-> "ValueError", v |-> 0]
    ELSE IF ~(1 <= v.v /\ v.v <= 10) THEN [error |-> "ValueError", v |-> 0]
    ELSE [error |-> "", v |-> v.v]

\* lines 28-37: CompatibilityResponse(score=..., reasoning=..., compatibility_factors=...)
CompatibilityResponse(score, reasoning, factors) ==
    IF /\ clamp_score(score).error = ""
       /\ reasoning.t = "str" /\ reasoning.len >= 10
       /\ Len(factors) = 4
    THEN [error |-> "", value |-> [score |-> clamp_score(score).v, reasoning |-> reasoning,
                                    compatibility_factors |-> factors]]
    ELSE [error |-> "ValidationError", value |-> NoCompatibilityResponse]

\* lines 368-426: what becomes of the decoded value
validate_data(data) ==
    IF data.kind = "invalid" THEN ParseFailed(502, Malformed)
    ELSE IF data.kind # "object" THEN ParseEscaped("TypeError")
    ELSE IF first_missing(data.d) # "" THEN ParseFailed(502, MissingDetail(first_missing(data.d)))
    ELSE IF ~factors_shape_ok(data.d.compatibility_factors) THEN ParseFailed(502, UnexpectedFormat)
    ELSE LET built == build_factors(data.d.compatibility_factors.items)
         IN  IF built.error \in {"KeyError", "TypeError"} THEN ParseFailed(502, InvalidFactorData)
             ELSE IF built.error # "" THEN ParseEscaped(built.error)
             ELSE LET made == CompatibilityResponse(data.d.score, data.d.reasoning, built.factors)
                  IN  IF made.error # "" THEN ParseFailed(502, ValidationFailed)
                      ELSE ParseReturned(made.value)

parse_compatibility_response(raw_response) ==
    validate_data(json_loads(extract_json(raw_response).text))

NotCalled == [called |-> FALSE, via |-> "", data |-> Invalid, out |-> ParseEscaped("")]

\* one call, with what it extracted and decoded on the way
CallOn(raw_response) ==
    [called |-> TRUE,
     via    |-> extract_json(raw_response).via,
     data   |-> json_loads(extract_json(raw_response).text),
     out    |-> parse_compatibility_response(raw_response)]

ParserInit ==
    /\ ptext \in AnswerTexts
    /\ pouts = [w \in Wrappings |-> NotCalled]
    /\ BatchIdle
    /\ SessionIdle
    /\ LLMIdle
    /\ TransformIdle
    /\ AnalyzerIdle
    /\ PortfolioIdle
    /\ LifecycleIdle

ParseCall(w) ==
    /\ ~pouts[w].called
    /\ pouts' = [pouts EXCEPT ![w] = CallOn(Wrap(w, ptext))]
    /\ UNCHANGED ptext
    /\ UNCHANGED otherThanParser

ParserNext == \E w \in Wrappings : ParseCall(w)

SpecParse == ParserInit /\ [][ParserNext]_vars

-----------------------------------------------------------------------------
(* Properties of parse_compatibility_response *)

IsObjectText(text) == Len(text) >= 2 /\ text[1] = LB /\ text[Len(text)] = RB

\* C12: for every JSON object text T, the call on T wrapped in a Markdown
\* ```json fence has the same outcome as the call on T alone (the same result
\* when T is valid, the same failure when it is not); the whole stripped text
\* is decoded only when the text holds neither a fenced nor a bare object.
C12_FenceSameAsBare ==
    /\ (IsObjectText(ptext) /\ pouts["bare"].called /\ pouts["fence_json"].called)
        => pouts["fence_json"].out = pouts["bare"].out
    /\ \A w \in Wrappings :
          (pouts[w].called /\ pouts[w].via = "whole")
            => ~fenced_search(Wrap(w, ptext)).found /\ ~object_search(Wrap(w, ptext)).found

\* the shape the prompt asks for: an integer score in 1..10, a reasoning
\* string, 4 factor objects each with a label and an indicator
PromptShaped(data) ==
    /\ data.kind = "object"
    /\ data.d.score.t = "int" /\ data.d.score.v \in 1..10
    /\ data.d.reasoning.t = "str"
    /\ data.d.compatibility_factors.t = "list"
    /\ Len(data.d.compatibility_factors.items) = 4
    /\ \A i \in 1..4 :
          /\ data.d.compatibility_factors.items[i].t = "dict"
          /\ {"label", "indicator"} \subseteq data.d.compatibility_factors.items[i].keys

\* C13: for an answer of the shape the prompt asks for (integer score in
\* 1..10, reasoning string, 4 factor objects with label and indicator) the
\* parser returns a Compatibility Result with that score, that reasoning and
\* the 4 factors in the same order.
C13_PromptShapeReturned ==
    \A w \in Wrappings :
        (pouts[w].called /\ PromptShaped(pouts[w].data)) =>
            /\ pouts[w].out.kind = "result"
            /\ pouts[w].out.result.score = pouts[w].data.d.score.v
            /\ pouts[w].out.result.reasoning = pouts[w].data.d.reasoning
            /\ Len(pouts[w].out.result.compatibility_factors) = 4
            /\ \A i \in 1..4 :
                  pouts[w].out.result.compatibility_factors[i].label
                    = pouts[w].data.d.compatibility_factors.items[i].label

Present(value) == value.t # "absent"

Fails502(call, detail) ==
    /\ call.out.kind = "http"
    /\ call.out.status = 502
    /\ call.out.detail = detail
    /\ call.out.result = NoCompatibilityResponse

\* C14: the parser fails with HTTP 502 and the message of the case, and never
\* returns a result with a defaulted field, when the extracted text is not
\* valid JSON, when score, reasoning or compatibility_factors is missing (the
\* first missing one in that order is the one reported), and when
\* compatibility_factors is not a list of exactly 4 elements.
C14_FailureCases ==
    \A w \in Wrappings :
        LET call == pouts[w]
            d    == call.data.d
        IN  call.called =>
            /\ call.data.kind = "invalid" =>
                  Fails502(call, "GitM8 received a malformed response from the analysis service. Please try again.")
            /\ (call.data.kind = "object" /\ ~Present(d.score)) =>
                  Fails502(call, "GitM8 analysis is incomplete (missing score). Please try again.")
            /\ (call.data.kind = "object" /\ Present(d.score) /\ ~Present(d.reasoning)) =>
                  Fails502(call, "GitM8 analysis is incomplete (missing reasoning). Please try again.")
            /\ (call.data.kind = "object" /\ Present(d.score) /\ Present(d.reasoning)
                  /\ ~Present(d.compatibility_factors)) =>
                  Fails502(call, "GitM8 analysis is incomplete (missing factors). Please try again.")
            /\ (call.data.kind = "object" /\ Present(d.score) /\ Present(d.reasoning)
                  /\ Present(d.compatibility_factors)
                  /\ ~(d.compatibility_factors.t = "list" /\ Len(d.compatibility_factors.items) = 4)) =>
                  Fails502(call, "GitM8 analysis returned an unexpected format. Please try again.")
            /\ call.out.kind = "result" =>
                  /\ Present(d.score) /\ Present(d.reasoning) /\ Present(d.compatibility_factors)
                  /\ Len(call.out.result.compatibility_factors) = Len(d.compatibility_factors.items)

\* an answer without reasoning and without factors was parsed and the missing
\* reasoning was reported
C14_Witness ==
    /\ pouts["bare"].called
    /\ pouts["bare"].data.kind = "object"
    /\ Present(pouts["bare"].data.d.score)
    /\ ~Present(pouts["bare"].data.d.reasoning)
    /\ ~Present(pouts["bare"].data.d.compatibility_factors)
    /\ pouts["bare"].out.status = 502
    /\ pouts["bare"].out.detail = "GitM8 analysis is incomplete (missing reasoning). Please try again."

\* an answer of the prompt's shape but for its score
FactorsAsPrompted(d) ==
    /\ d.compatibility_factors.t = "list"
    /\ Len(d.compatibility_factors.items) = 4
    /\ \A i \in 1..4 :
          /\ d.compatibility_factors.items[i].t = "dict"
          /\ {"label", "indicator"} \subseteq d.compatibility_factors.items[i].keys

BadScore(score) ==
    \/ score.t = "nonnumeric"
    \/ score.t \in {"int", "str"} /\ ~(score.v \in 1..10)

\* C15: every result the parser returns has an integer score in 1..10, and an
\* answer whose score is below 1, above 10 or not numeric (and that is
\* otherwise as the prompt asks) fails with the 502 validation failure; the
\* score is never moved to the nearest bound.
C15_ScoreValidated ==
    \A w \in Wrappings :
        LET call == pouts[w]
        IN  call.called =>
            /\ call.out.kind = "result" => call.out.result.score \in 1..10
            /\ (/\ call.data.kind = "object"
                /\ BadScore(call.data.d.score)
                /\ call.data.d.reasoning.t = "str" /\ call.data.d.reasoning.len >= 10
                /\ FactorsAsPrompted(call.data.d))
               => /\ call.out.kind = "http"
                  /\ call.out.status = 502
                  /\ call.out.detail = "GitM8 analysis validation failed"

LabelsOf(items) == [i \in 1..Len(items) |-> items[i].label]

\* a list of well-formed factors that leaves out at least one of the labels
\* the prompt asks for
OmitsALabel(d) ==
    /\ d.compatibility_factors.t = "list"
    /\ Len(d.compatibility_factors.items) < 4
    /\ \A i \in 1..Len(d.compatibility_factors.items) :
          /\ d.compatibility_factors.items[i].t = "dict"
          /\ {"label", "indicator"} \subseteq d.compatibility_factors.items[i].keys
          /\ d.compatibility_factors.items[i].label \in Range(PromptLabels)

-----------------------------------------------------------------------------
\* transform_to_analytics_format (github_graphql_service.py 205-317).
\*
\* A dict is kept as the sequence of its <<key, value>> items in insertion
\* order, which is the order Python iterates and sorts them in.  A description
\* is kept as the set of tech keywords that occur in it as substrings
\* ("a database tool" holds both "data" and "database").

MaxRepos == 2

MaxCount == 1

MaxRuns == 2

Runs == 1..MaxRuns

\* line 215
tech_keywords == {"api", "web", "mobile", "ai", "ml", "data", "security", "testing", "deployment", "database"}

\* the keywords that occur in the descriptions below
KeywordsInUse == {"web", "data", "database"}

\* an order of iteration of the frozenset, as far as the keywords in use go;
\* it follows from the string hashes, which are seeded per process
HashOrders == {o \in SeqOfLen(KeywordsInUse, Cardinality(KeywordsInUse)) : Range(o) = KeywordsInUse}

Edge(name, size) == [name |-> name, size |-> size]

Repo(edges, keywords, primary) == [languages |-> edges, description |-> keywords, primaryLanguage |-> primary]

RepoChoices ==
    { Repo(<<Edge("Python", 2), Edge("Go", 1)>>, {}, "Python"),
      Repo(<<Edge("Go", 2)>>, {"web"}, "Go"),
      Repo(<<Edge("Python", 1), Edge("", 5)>>, {"data", "database"}, ""),
      Repo(<<>>, {"web", "data"}, "Python"),
      Repo(<<Edge("Go", 1), Edge("Go", 1)>>, {}, ""),
      Repo(<<Edge("Rust", 0)>>, {"database", "data"}, "Rust") }

\* line 273-279
activity_types ==
    << <<"totalCommitContributions", "PushEvent", "commits">>,
       <<"totalPullRequestContributions", "PullRequestEvent", "pull requests">>,
       <<"totalIssueContributions", "IssuesEvent", "issues">>,
       <<"totalRepositoryContributions", "CreateEvent", "repositories">>,
       <<"totalPullRequestReviewContributions", "PullRequestReviewEvent", "PR reviews">> >>

ContributionFields == {activity_types[i][1] : i \in 1..Len(activity_types)}

NoContributions == [f \in ContributionFields |-> 0]

RawUser(repos, contributions) == [repositories |-> repos, contributionsCollection |-> contributions]

\* the inputs: every sequence of repositories, and every setting of the counters
RawUsers ==
    { RawUser(repos, NoContributions) : repos \in SeqsUpTo(RepoChoices, MaxRepos) }
    \cup { RawUser(<<>>, c) : c \in [ContributionFields -> 0..MaxCount] }
    \cup { RawUser(<<r>>, [f \in ContributionFields |-> MaxCount]) : r \in RepoChoices }

\* str.lower() on the language names used
Lower(name) ==
    CASE name = "Python" -> "python"
      [] name = "Go"     -> "go"
      [] name = "Rust"   -> "rust"

DictKeys(items) == {items[i][1] : i \in 1..Len(items)}

\* defaultdict(int): d[key] += n
dict_add(items, key, n) ==
    IF key \in DictKeys(items)
    THEN [i \in 1..Len(items) |-> IF items[i][1] = key THEN <<key, items[i][2] + n>> ELSE items[i]]
    ELSE Append(items, <<key, n>>)

\* lines 219-223: the language edges of one repository
RECURSIVE add_edges(_, _, _)
add_edges(language_bytes, edges, i) ==
    IF i > Len(edges) THEN language_bytes
    ELSE add_edges(IF edges[i].name # "" THEN dict_add(language_bytes, edges[i].name, edges[i].size)
                   ELSE language_bytes,
                   edges, i + 1)

\* lines 227-230: the first keyword, in the order of iteration, that the
\* description holds; "" when it holds none
first_keyword(desc, order) ==
    LET hits == {i \in 1..Len(order) : order[i] \in desc}
    IN  IF hits = {} THEN "" ELSE order[SetMin(hits)]

\* lines 226-236: the topics of one repository
add_topics(topic_counts, repo, order) ==
    LET keyword == first_keyword(repo.description, order)
        counted == IF keyword # "" THEN dict_add(topic_counts, keyword, 1) ELSE topic_counts
    IN  IF repo.primaryLanguage # ""
        THEN dict_add(counted, Lower(repo.primaryLanguage), 1)
        ELSE counted

\* lines 217-254: the single pass over the repositories
RECURSIVE single_pass(_, _, _, _)
single_pass(repos, i, order, acc) ==
    IF i > Len(repos) THEN acc
    ELSE single_pass(repos, i + 1, order,
                     [language_bytes |-> add_edges(acc.language_bytes, repos[i].languages, 1),
                      topic_counts   |-> add_topics(acc.topic_counts, repos[i], order),
                      repositories   |-> Append(acc.repositories, [language |-> repos[i].primaryLanguage])])

\* variant: reverse=True is forgotten
stays_ahead_ascending(a, x) == a[2] <= x[2]

\* key=lambda x: x[1], reverse=True, stable: an item stays ahead of a later
\* one unless the later one has the larger value
stays_ahead(a, x) == a[2] >= x[2]

\* the place of x in a sorted list: behind every item that stays ahead of it
RECURSIVE insert_desc(_, _)
insert_desc(sorted, x) ==
    IF sorted = <<>> THEN <<x>>
    ELSE IF stays_ahead(Head(sorted), x) THEN <<Head(sorted)>> \o insert_desc(Tail(sorted), x)
    ELSE <<x>> \o sorted

\* sorted(d.items(), key=lambda x: x[1], reverse=True): stable
RECURSIVE sorted_by_value(_)
sorted_by_value(items) ==
    IF items = <<>> THEN <<>>
    ELSE insert_desc(sorted_by_value(SubSeq(items, 1, Len(items) - 1)), items[Len(items)])

\* variant: a counter of 0 gets a record too
activity_wanted_from_0(count) == count >= 0

\* line 283
activity_wanted(count) == count > 0

\* lines 280-289
RECURSIVE build_recent_activity(_, _)
build_recent_activity(contributions, i) ==
    IF i > Len(activity_types) THEN <<>>
    ELSE LET count == contributions[activity_types[i][1]]
         IN  (IF activity_wanted(count)
              THEN << [type |-> activity_types[i][2], repo |-> <<count, activity_types[i][3]>>, count |-> count] >>
              ELSE <<>>)
             \o build_recent_activity(contributions, i + 1)

transform_to_analytics_format(user_data, order) ==
    LET pass == single_pass(user_data.repositories, 1, order,
                            [language_bytes |-> <<>>, topic_counts |-> <<>>, repositories |-> <<>>])
    IN  [languages       |-> sorted_by_value(pass.language_bytes),
         topics          |-> sorted_by_value(pass.topic_counts),
         recent_activity |-> build_recent_activity(user_data.contributionsCollection, 1),
         repositories    |-> pass.repositories]

NotRun == [ran |-> FALSE, profile |-> <<>>]

TransformInit ==
    /\ tinput \in RawUsers
    /\ horder = [r \in Runs |-> <<>>]
    /\ touts = [r \in Runs |-> NotRun]
    /\ BatchIdle
    /\ SessionIdle
    /\ LLMIdle
    /\ ParserIdle
    /\ AnalyzerIdle
    /\ PortfolioIdle
    /\ LifecycleIdle

\* one run of the transformation, in a process whose hash seed gives the order o
Transform(r) ==
    /\ ~touts[r].ran
    /\ \E o \in HashOrders :
          /\ horder' = [horder EXCEPT ![r] = o]
          /\ touts' = [touts EXCEPT ![r] = [ran |-> TRUE, profile |-> transform_to_analytics_format(tinput, o)]]
    /\ UNCHANGED tinput
    /\ UNCHANGED otherThanTransform

TransformNext == \E r \in Runs : Transform(r)

SpecTransform == TransformInit /\ [][TransformNext]_vars

-----------------------------------------------------------------------------
(* Properties of transform_to_analytics_format *)

NonIncreasing(items) == \A i \in 1..(Len(items) - 1) : items[i][2] >= items[i + 1][2]

NoDuplicateKeys(items) == \A i, j \in 1..Len(items) : items[i][1] = items[j][1] => i = j

\* the language edges of the input, each named by its repository and position
EdgesOf(user_data) ==
    UNION { {<<r, e>> : e \in 1..Len(user_data.repositories[r].languages)} :
            r \in 1..Len(user_data.repositories) }

RECURSIVE SumSizes(_, _)
SumSizes(user_data, edges) ==
    IF edges = {} THEN 0
    ELSE LET p == CHOOSE q \in edges : TRUE
         IN  user_data.repositories[p[1]].languages[p[2]].size + SumSizes(user_data, edges \ {p})

EdgesNamed(user_data, name) ==
    {p \in EdgesOf(user_data) : user_data.repositories[p[1]].languages[p[2]].name = name}

\* C17: in every profile the transformation returns, languages and topics are
\* sorted by value, largest first, hold no key twice, and the value of each
\* language is the sum of the sizes of the language edges of that name over
\* all repositories (every named edge's language being listed).
C17_SortedAggregates ==
    \A r \in Runs :
        touts[r].ran =>
            LET profile == touts[r].profile
            IN  /\ NonIncreasing(profile.languages)
                /\ NonIncreasing(profile.topics)
                /\ NoDuplicateKeys(profile.languages)
                /\ NoDuplicateKeys(profile.topics)
                /\ \A i \in 1..Len(profile.languages) :
                      /\ EdgesNamed(tinput, profile.languages[i][1]) # {}
                      /\ profile.languages[i][2]
                           = SumSizes(tinput, EdgesNamed(tinput, profile.languages[i][1]))
                /\ \A p \in EdgesOf(tinput) :
                      LET name == tinput.repositories[p[1]].languages[p[2]].name
                      IN  name # "" => name \in DictKeys(profile.languages)

\* Go was summed over two repositories and overtook Python
C17_Witness ==
    /\ touts[1].ran
    /\ Len(tinput.repositories) = 2
    /\ touts[1].profile.languages = << <<"Go", 3>>, <<"Python", 2>> >>
    /\ Len(touts[1].profile.topics) = 3

\* C18: the transformation is deterministic: two runs on the same user data,
\* in the same process or in two processes, return the same profile, also for
\* repositories whose description holds more than one tech keyword.
C18_Deterministic ==
    \A r1, r2 \in Runs :
        (touts[r1].ran /\ touts[r2].ran) => touts[r1].profile = touts[r2].profile

EventTypes == {"PushEvent", "PullRequestEvent", "IssuesEvent", "CreateEvent", "PullRequestReviewEvent"}

\* C19: recent_activity holds exactly one record for each of the five
\* contribution counters that is greater than 0 and none for a counter of 0;
\* the record's count is the counter and its type is the counter's event of
\* the 5-event enumeration.
C19_RecentActivity ==
    \A r \in Runs :
        touts[r].ran =>
            LET activity == touts[r].profile.recent_activity
                counters == tinput.contributionsCollection
            IN  /\ \A i \in 1..Len(activity) : activity[i].type \in EventTypes
                /\ \A k \in 1..Len(activity_types) :
                      LET records == {i \in 1..Len(activity) : activity[i].type = activity_types[k][2]}
                      IN  IF counters[activity_types[k][1]] > 0
                          THEN /\ Cardinality(records) = 1
                               /\ \A i \in records : activity[i].count = counters[activity_types[k][1]]
                          ELSE records = {}
                /\ Len(activity) = Cardinality({f \in ContributionFields : counters[f] > 0})

\* commits and reviews were counted, issues were not
C19_Witness ==
    /\ touts[1].ran
    /\ tinput.contributionsCollection["totalCommitContributions"] > 0
    /\ tinput.contributionsCollection["totalIssueContributions"] = 0
    /\ tinput.contributionsCollection["totalPullRequestReviewContributions"] > 0
    /\ Len(touts[1].profile.recent_activity) = 2
    /\ touts[1].profile.recent_activity[1].type = "PushEvent"
    /\ touts[1].profile.recent_activity[2].type = "PullRequestReviewEvent"

-----------------------------------------------------------------------------
\* UserProfileAnalyzer (analytics_service.py 63-235).  Dicts are sequences of
\* <<key, value>> items in insertion order, as above.

MaxProfiles == 2

TopCount == 10

Usernames == {"alice", "bob"}

\* a distribution over more languages than the top list holds
ManyLanguages ==
    << <<"C", 11>>, <<"Java", 10>>, <<"Rust", 9>>, <<"Ruby", 8>>, <<"Swift", 7>>,
       <<"Kotlin", 6>>, <<"Scala", 5>>, <<"Perl", 4>>, <<"Lua", 3>>, <<"Go", 2>>,
       <<"Python", 1>> >>

\* the language and topic distributions a profile is drawn with
Distributions ==
    { [languages |-> <<>>, topics |-> << <<"web", 1>> >>],
      [languages |-> << <<"Python", 5>>, <<"Go", 3>> >>,
       topics |-> << <<"python", 2>>, <<"web", 1>> >>],
      [languages |-> ManyLanguages, topics |-> << <<"web", 1>> >>] }

\* models.py 46-54: the fields of UserProfile the analyzer reads
UserProfiles ==
    { [username |-> u, languages |-> d.languages, topics |-> d.topics] :
          u \in Usernames, d \in Distributions }

ProfileLists == SeqsUpTo(UserProfiles, MaxProfiles)

\* d[key] = value
dict_set(items, key, value) ==
    IF key \in DictKeys(items)
    THEN [i \in 1..Len(items) |-> IF items[i][1] = key THEN <<key, value>> ELSE items[i]]
    ELSE Append(items, <<key, value>>)

\* d.get(key, default)
dict_get(items, key, default) ==
    IF key \in DictKeys(items)
    THEN items[CHOOSE i \in 1..Len(items) : items[i][1] = key][2]
    ELSE default

\* dict(pairs)
RECURSIVE dict_of(_)
dict_of(pairs) ==
    IF pairs = <<>> THEN <<>>
    ELSE dict_set(dict_of(SubSeq(pairs, 1, Len(pairs) - 1)), pairs[Len(pairs)][1], pairs[Len(pairs)][2])

\* lines 113-115 and 117-118: add the values of one dict to the totals, or 1
\* for each key when user counts are tracked
RECURSIVE add_all(_, _, _, _)
add_all(totals, items, i, counting) ==
    IF i > Len(items) THEN totals
    ELSE add_all(dict_add(totals, items[i][1], IF counting THEN 1 ELSE items[i][2]), items, i + 1, counting)

EmptyCaches ==
    [built |-> FALSE, user_count |-> 0, user_languages |-> <<>>, user_topics |-> <<>>,
     user_metrics |-> <<>>, language_totals |-> <<>>, lang_user_count |-> <<>>,
     topic_user_count |-> <<>>, top_languages |-> <<>>, user_language_ranks |-> <<>>,
     language_overlap |-> <<>>, topic_overlap |-> <<>>, common_languages |-> <<>>,
     common_topics |-> <<>>]

\* lines 101-127: the single pass through the profiles
RECURSIVE profiles_pass(_, _, _)
profiles_pass(profiles, i, c) ==
    IF i > Len(profiles) THEN c
    ELSE LET languages == dict_of(profiles[i].languages)
             topics    == dict_of(profiles[i].topics)
         IN  profiles_pass(profiles, i + 1,
                [c EXCEPT !.user_languages   = dict_set(@, profiles[i].username, languages),
                          !.user_topics      = dict_set(@, profiles[i].username, topics),
                          !.language_totals  = add_all(@, languages, 1, FALSE),
                          !.lang_user_count  = add_all(@, languages, 1, TRUE),
                          !.topic_user_count = add_all(@, topics, 1, TRUE),
                          !.user_metrics     = dict_set(@, profiles[i].username, i)])

Keys(items) == [i \in 1..Len(items) |-> items[i][1]]

\* variant: every language, without the cut at 10
top_languages_uncut(language_totals) ==
    Keys(sorted_by_value(language_totals))

\* lines 130-131: the names of the (at most) 10 languages with the largest totals
top_languages_of(language_totals) ==
    LET sorted_langs == sorted_by_value(language_totals)
    IN  Keys(SubSeq(sorted_langs, 1, Min(TopCount, Len(sorted_langs))))

\* variant: ranks counted from rank_count - 1 down to 0
language_ranks_from_zero(languages, top_languages) ==
    LET InTop(item) == item[1] \in Range(top_languages)
        user_top == sorted_by_value(SelectSeq(languages, InTop))
    IN  [idx \in 1..Len(user_top) |-> <<user_top[idx][1], Len(user_top) - idx>>]

\* lines 136-143: rank_count - idx for the user's top languages, largest first
language_ranks(languages, top_languages) ==
    LET InTop(item) == item[1] \in Range(top_languages)
        user_top == sorted_by_value(SelectSeq(languages, InTop))
    IN  [idx \in 1..Len(user_top) |-> <<user_top[idx][1], Len(user_top) - (idx - 1)>>]

\* lines 146 and 149: `if count > 1`
overlapping(item) == item[2] > 1

\* lines 94-153
precompute(profiles) ==
    LET pass == profiles_pass(profiles, 1, [EmptyCaches EXCEPT !.user_count = Len(profiles)])
        top  == top_languages_of(pass.language_totals)
        language_overlap == SelectSeq(pass.lang_user_count, overlapping)
        topic_overlap    == SelectSeq(pass.topic_user_count, overlapping)
    IN  [pass EXCEPT !.built = TRUE,
                     !.top_languages = top,
                     !.user_language_ranks =
                         [u \in 1..Len(pass.user_languages) |->
                             <<pass.user_languages[u][1], language_ranks(pass.user_languages[u][2], top)>>],
                     !.language_overlap = language_overlap,
                     !.common_languages = Keys(language_overlap),
                     !.topic_overlap = topic_overlap,
                     !.common_topics = Keys(topic_overlap)]

\* the value of a method that has not been called
NotAsked == [asked |-> FALSE, value |-> <<>>]

\* variant: only an analyzer without profiles is too small
too_few_below_1(user_count) == user_count < 1

\* lines 174 and 198: `if self._user_count < 2`
too_few(user_count) == user_count < 2

\* lines 163-167: one entry of the radar data, after the first n profiles
RECURSIVE radar_entry(_, _, _, _)
radar_entry(c, profiles, lang, n) ==
    IF n = 0 THEN << <<"language", lang>> >>
    ELSE dict_set(radar_entry(c, profiles, lang, n - 1), profiles[n].username,
                  dict_get(dict_get(c.user_language_ranks, profiles[n].username, <<>>), lang, 0))

\* lines 159-170; the value is the list under "languages"
get_radar_chart_data(c, profiles) ==
    [asked |-> TRUE,
     value |-> [i \in 1..Len(c.top_languages) |->
                   radar_entry(c, profiles, c.top_languages[i], Len(profiles))]]

\* lines 178-181: [{"label": label, **{u: m[metric] for u, m in user_metrics}}]
comparison_rows(c, label, metric) ==
    << << <<"label", label>> >> \o
       [j \in 1..Len(c.user_metrics) |->
           <<c.user_metrics[j][1], <<metric, c.user_metrics[j][2]>> >>] >>

\* lines 172-194
get_comparison_metrics(c) ==
    IF too_few(c.user_count) THEN [asked |-> TRUE, value |-> <<>>]
    ELSE [asked |-> TRUE,
          value |-> << <<"activity_comparison", comparison_rows(c, "Activity Metrics", "activity")>>,
                       <<"repository_comparison", comparison_rows(c, "Repository Stats", "repositories")>>,
                       <<"language_comparison", comparison_rows(c, "Language Diversity", "languages")>>,
                       <<"topic_comparison", comparison_rows(c, "Topic Interests", "topics")>> >>]

\* lines 204-220: one value for each username of user_metrics
per_user(c, metric) ==
    [j \in 1..Len(c.user_metrics) |->
        <<c.user_metrics[j][1], <<metric, c.user_metrics[j][2]>> >>]

\* lines 196-231
get_compatibility_metrics(c) ==
    IF too_few(c.user_count) THEN [asked |-> TRUE, value |-> <<>>]
    ELSE [asked |-> TRUE,
          value |-> << <<"language_overlap", c.language_overlap>>,
                       <<"topic_overlap", c.topic_overlap>>,
                       <<"common_languages", c.common_languages>>,
                       <<"common_topics", c.common_topics>>,
                       <<"user_language_distribution", c.user_languages>>,
                       <<"user_topic_distribution", c.user_topics>>,
                       <<"expertise_overlap", per_user(c, "expertise")>>,
                       <<"collaboration_potential", per_user(c, "engagement_patterns")>> >>]

\* lines 233-235: self._user_metrics.get(username), None when there is none
get_user_summary(c, username) ==
    IF username \in DictKeys(c.user_metrics)
    THEN [asked |-> TRUE, found |-> TRUE, value |-> dict_get(c.user_metrics, username, 0)]
    ELSE [asked |-> TRUE, found |-> FALSE, value |-> 0]

\* the usernames get_user_summary is asked for: one that may be among the
\* profiles and one that never is
SummaryNames == {"alice", "carol"}

NoSummary == [asked |-> FALSE, found |-> FALSE, value |-> 0]

\* the profiles another analyzer is constructed with
OtherProfileLists ==
    { << [username |-> "alice", languages |-> << <<"Go", 9>>, <<"Python", 1>> >>,
          topics |-> << <<"web", 1>> >>] >>,
      << [username |-> "bob", languages |-> ManyLanguages, topics |-> << <<"web", 1>> >>],
         [username |-> "alice", languages |-> << <<"Lua", 50>> >>, topics |-> << <<"web", 1>> >>] >> }

\* variant: cache containers shared by all instances
caches_after_other_shared(own, other) == IF own.built THEN other ELSE own

\* lines 78-90: the cache containers are attributes of the instance, created
\* in __init__, so the caches of this analyzer after another one was built
caches_after_other(own, other) == own

AnalyzerInit ==
    /\ aprofiles \in ProfileLists
    /\ acache = EmptyCaches
    /\ ametrics = NotAsked
    /\ aradar = NotAsked
    /\ acomparison = NotAsked
    /\ asummary = [u \in SummaryNames |-> NoSummary]
    /\ bresult = NotAsked
    /\ BatchIdle
    /\ SessionIdle
    /\ LLMIdle
    /\ ParserIdle
    /\ TransformIdle
    /\ PortfolioIdle
    /\ LifecycleIdle

\* UserProfileAnalyzer(profiles)
Construct ==
    /\ ~acache.built
    /\ acache' = precompute(aprofiles)
    /\ UNCHANGED <<aprofiles, ametrics, aradar, acomparison, asummary, bresult>>
    /\ UNCHANGED otherThanAnalyzer

\* analyzer.get_radar_chart_data()
GetRadarChartData ==
    /\ acache.built
    /\ aradar' = get_radar_chart_data(acache, aprofiles)
    /\ UNCHANGED <<aprofiles, acache, ametrics, acomparison, asummary, bresult>>
    /\ UNCHANGED otherThanAnalyzer

\* analyzer.get_comparison_metrics()
GetComparisonMetrics ==
    /\ acache.built
    /\ acomparison' = get_comparison_metrics(acache)
    /\ UNCHANGED <<aprofiles, acache, ametrics, aradar, asummary, bresult>>
    /\ UNCHANGED otherThanAnalyzer

\* analyzer.get_compatibility_metrics()
GetCompatibilityMetrics ==
    /\ acache.built
    /\ ametrics' = get_compatibility_metrics(acache)
    /\ UNCHANGED <<aprofiles, acache, aradar, acomparison, asummary, bresult>>
    /\ UNCHANGED otherThanAnalyzer

\* analyzer.get_user_summary(username)
GetUserSummary ==
    /\ acache.built
    /\ \E username \in SummaryNames :
          asummary' = [asummary EXCEPT ![username] = get_user_summary(acache, username)]
    /\ UNCHANGED <<aprofiles, acache, ametrics, aradar, acomparison, bresult>>
    /\ UNCHANGED otherThanAnalyzer

\* lines 332-334: create_radar_chart_data(user_profiles) constructs another
\* analyzer and queries it
CreateRadarChartData ==
    /\ \E user_profiles \in OtherProfileLists :
          LET other == precompute(user_profiles)
          IN  /\ bresult' = get_radar_chart_data(other, user_profiles)
              /\ acache' = caches_after_other(acache, other)
    /\ UNCHANGED <<aprofiles, ametrics, aradar, acomparison, asummary>>
    /\ UNCHANGED otherThanAnalyzer

AnalyzerNext ==
    \/ Construct
    \/ GetRadarChartData
    \/ GetComparisonMetrics
    \/ GetCompatibilityMetrics
    \/ GetUserSummary
    \/ CreateRadarChartData

SpecAnalyzer == AnalyzerInit /\ [][AnalyzerNext]_vars

-----------------------------------------------------------------------------
(* Properties of UserProfileAnalyzer *)

\* the users, by username, who have the key in a distribution of theirs
UsersWith(field, key) ==
    {aprofiles[i].username : i \in {j \in 1..Len(aprofiles) : key \in DictKeys(aprofiles[j][field])}}

AllKeys(field) == UNION {DictKeys(aprofiles[i][field]) : i \in 1..Len(aprofiles)}

OverlapIsByUser(field, common, overlap) ==
    /\ \A key \in AllKeys(field) :
          key \in Range(common) <=> Cardinality(UsersWith(field, key)) > 1
    /\ DictKeys(overlap) = {key \in AllKeys(field) : Cardinality(UsersWith(field, key)) > 1}
    /\ \A i \in 1..Len(overlap) : overlap[i][2] = Cardinality(UsersWith(field, overlap[i][1]))

\* C20: for 2 or more profiles, counting users by username, a language is in
\* common_languages exactly when more than one user has it in their language
\* distribution, and language_overlap maps exactly those languages to the
\* number of users who have them; likewise common_topics and topic_overlap.
C20_OverlapCountsUsers ==
    (ametrics.asked /\ Len(aprofiles) >= 2) =>
        /\ ametrics.value # <<>>
        /\ OverlapIsByUser("languages", dict_get(ametrics.value, "common_languages", <<>>),
                           dict_get(ametrics.value, "language_overlap", <<>>))
        /\ OverlapIsByUser("topics", dict_get(ametrics.value, "common_topics", <<>>),
                           dict_get(ametrics.value, "topic_overlap", <<>>))

-----------------------------------------------------------------------------
\* C29: for every input text the parser either returns a validated result or
\* fails with an HTTPException of status 502; no other exception leaves it,
\* whether the JSON value is not an object, a factor lacks label or
\* indicator, or a factor or the result fails model validation.
C29_OnlyResultOr502 ==
    \A w \in Wrappings :
        pouts[w].called =>
            \/ pouts[w].out.kind = "result"
            \/ pouts[w].out.kind = "http" /\ pouts[w].out.status = 502

-----------------------------------------------------------------------------
\* the answer to the single-user query that a step of the fallback receives
SequentialAnswered == bpc = "seq_wait" /\ completed' = completed + 1

\* C26: in the sequential fallback a username whose query yields no user or a
\* 404 is skipped and the next username is still queried; a failure with any
\* other status on the i-th username ends the fallback at once: it reaches
\* the caller unchanged, no query is issued for the usernames after i, and
\* the users already fetched are not returned.
C26_SkipOrPropagate ==
    [][ SequentialAnswered =>
          LET r == lastResult'
              skipped == \/ ~r.ok /\ r.error.status = 404
                         \/ r.ok /\ ~Truthy(JsonGet(r.data, "user"))
          IN  /\ skipped =>
                    /\ usernames[seqIdx] \in DOMAIN results' <=> usernames[seqIdx] \in DOMAIN results
                    /\ IF seqIdx < Len(usernames)
                       THEN /\ bpc' = "seq_wait"
                            /\ Len(issued') = Len(issued) + 1
                            /\ issued'[Len(issued')].username = usernames[seqIdx + 1]
                       ELSE fallbackDone'
              /\ (~r.ok /\ r.error.status # 404) =>
                    /\ bpc' = "failed"
                    /\ raised' = r.error
                    /\ issued' = issued
                    /\ Len(issued) = seqIdx
                    /\ ~fallbackDone'
                    /\ output' = <<>>
      ]_vars

\* the second of three usernames failed with 500 after the first was fetched
C26_Witness ==
    /\ bpc = "failed"
    /\ ~fallbackDone
    /\ Len(usernames) = 3
    /\ seqIdx = 2
    /\ Len(issued) = 2
    /\ raised.status = 500
    /\ usernames[1] \in DOMAIN results
    /\ output = <<>>

-----------------------------------------------------------------------------
\* C27: under every interleaving of get_session and release_session, each
\* session ever constructed is the one referenced as the shared session or
\* has been closed (no open session is left unreferenced), and when no call
\* is under way after a release_session the shared reference is empty or
\* names an open session that a later get_session made.
C27_NoSessionLeaked ==
    /\ \A s \in 1..Len(sessions) : sessions[s] = "open" => shared = s
    /\ (releaseCalled /\ \A t \in Tasks : tpc[t] = "idle")
          => (shared = 0 \/ sessions[shared] = "open")

-----------------------------------------------------------------------------
(* Properties of the radar data *)

SuppliedUsernames == {aprofiles[i].username : i \in 1..Len(aprofiles)}

\* the language distribution of a user: the one of the last profile supplied
\* under the username
DistributionOf(username) ==
    LET last == CHOOSE i \in 1..Len(aprofiles) :
                    /\ aprofiles[i].username = username
                    /\ \A j \in (i + 1)..Len(aprofiles) : aprofiles[j].username # username
    IN  dict_of(aprofiles[last].languages)

\* the languages of the radar entries, in order
RadarLanguages == [i \in 1..Len(aradar.value) |-> dict_get(aradar.value[i], "language", "")]

\* the rank the radar data gives a user for a language of its entries; -1 when
\* the entry has none
RadarRank(username, lang) ==
    LET e == CHOOSE i \in 1..Len(aradar.value) : dict_get(aradar.value[i], "language", "") = lang
    IN  dict_get(aradar.value[e], username, -1)

\* C21: in the radar data, for each user who has k of the top languages in
\* their distribution, the ranks of those k languages are exactly 1..k, a
\* language with more bytes ranking above one with fewer (so the highest byte
\* count gets k and the lowest 1), and every top language absent from the
\* user's distribution has rank 0 for that user.
C21_RanksOneToK ==
    aradar.asked =>
        \A username \in SuppliedUsernames :
            LET dist == DistributionOf(username)
                top  == Range(RadarLanguages)
                used == top \cap DictKeys(dist)
                k    == Cardinality(used)
            IN  /\ {RadarRank(username, l) : l \in used} = 1..k
                /\ \A l, m \in used :
                      dict_get(dist, l, 0) > dict_get(dist, m, 0)
                          => RadarRank(username, l) > RadarRank(username, m)
                /\ \A l \in top \ used : RadarRank(username, l) = 0

\* one user has all ten top languages and another lacks some of them
C21_Witness ==
    /\ aradar.asked
    /\ \E u, v \in SuppliedUsernames :
          /\ Cardinality(Range(RadarLanguages) \cap DictKeys(DistributionOf(u))) = TopCount
          /\ RadarRank(u, RadarLanguages[1]) = TopCount
          /\ Cardinality(Range(RadarLanguages) \cap DictKeys(DistributionOf(v))) = 2
          /\ \E l \in Range(RadarLanguages) : RadarRank(v, l) = 0

\* the bytes of a language summed over the first n supplied profiles
RECURSIVE TotalBytes(_, _)
TotalBytes(lang, n) ==
    IF n = 0 THEN 0
    ELSE TotalBytes(lang, n - 1) + dict_get(dict_of(aprofiles[n].languages), lang, 0)

\* C22: get_radar_chart_data returns at most 10 entries, one for each top
\* language; the top languages are those with the largest byte totals over
\* all supplied profiles, the entries are in non-increasing order of that
\* total, and every entry maps every supplied username to that user's rank
\* for the language of the entry.
C22_TopTenByTotal ==
    aradar.asked =>
        LET n    == Len(aradar.value)
            all  == AllKeys("languages")
            top  == Range(RadarLanguages)
        IN  /\ n <= TopCount
            /\ n = Min(TopCount, Cardinality(all))
            /\ top \subseteq all
            /\ Cardinality(top) = n
            /\ \A l \in top : \A m \in all \ top :
                  TotalBytes(l, Len(aprofiles)) >= TotalBytes(m, Len(aprofiles))
            /\ \A i, j \in 1..n :
                  i < j => TotalBytes(RadarLanguages[i], Len(aprofiles))
                               >= TotalBytes(RadarLanguages[j], Len(aprofiles))
            /\ \A i \in 1..n :
                  /\ DictKeys(aradar.value[i]) = {"language"} \cup SuppliedUsernames
                  /\ \A username \in SuppliedUsernames :
                        dict_get(aradar.value[i], username, -1) =
                            dict_get(dict_get(acache.user_language_ranks, username, <<>>),
                                     RadarLanguages[i], 0)

\* eleven languages over two users: the entry list is cut at ten
C22_Witness ==
    /\ aradar.asked
    /\ Len(aradar.value) = TopCount
    /\ Cardinality(AllKeys("languages")) = TopCount + 1
    /\ Cardinality(SuppliedUsernames) = 2
    /\ \E i \in 1..(TopCount - 1) :
          TotalBytes(RadarLanguages[i], Len(aprofiles)) = TotalBytes(RadarLanguages[i + 1], Len(aprofiles))

-----------------------------------------------------------------------------
(* Properties of the comparison and compatibility metrics *)

ComparisonKeys ==
    {"activity_comparison", "repository_comparison", "language_comparison", "topic_comparison"}

CompatibilityKeys ==
    {"language_overlap", "topic_overlap", "common_languages", "common_topics",
     "user_language_distribution", "user_topic_distribution", "expertise_overlap",
     "collaboration_potential"}

\* C23: for an analyzer built from 0 or 1 profiles get_comparison_metrics and
\* get_compatibility_metrics each return the empty mapping; for 2 or more
\* profiles each returns a mapping that has all of its documented keys.
C23_EmptyBelowTwo ==
    /\ acomparison.asked =>
          IF Len(aprofiles) < 2 THEN acomparison.value = <<>>
          ELSE DictKeys(acomparison.value) = ComparisonKeys
    /\ ametrics.asked =>
          IF Len(aprofiles) < 2 THEN ametrics.value = <<>>
          ELSE DictKeys(ametrics.value) = CompatibilityKeys

\* both methods were called on an analyzer of exactly one profile
C23_Witness ==
    /\ Len(aprofiles) = 1
    /\ acomparison.asked /\ acomparison.value = <<>>
    /\ ametrics.asked /\ ametrics.value = <<>>

-----------------------------------------------------------------------------
-----------------------------------------------------------------------------
\* PortfolioService.get_github_data (portfolio_service.py 158-189) with the
\* cache collaborator (cache_service.py 61-90) and the snapshot store.  Python
\* values carry their type, JSON texts are the arrays and strings written.

MaxFetches == 2

PyTuple(items) == [py |-> "tuple", items |-> items]

PyList(items) == [py |-> "list", items |-> items]

\* github_graphql_service.py 257-258, 309-313: languages and topics are lists
\* of (name, count) tuples, empty for a user without repositories
LiveDatas ==
    { [username |-> "octocat",
       languages |-> PyList(<< PyTuple(<<"Python", 5>>), PyTuple(<<"Go", 3>>) >>),
       topics |-> PyList(<< PyTuple(<<"web", 1>>) >>)],
      [username |-> "octocat", languages |-> PyList(<<>>), topics |-> PyList(<<>>)] }

\* json.dumps of a list of pairs: lists and tuples are both written as arrays
json_array_of_pairs(v) ==
    [json |-> "array",
     items |-> [i \in 1..Len(v.items) |-> [json |-> "array", items |-> v.items[i].items]]]

\* json.loads of an array of arrays: every array is read as a list
py_of_array_of_pairs(a) ==
    PyList([i \in 1..Len(a.items) |-> PyList(a.items[i].items)])

\* cache_service.py 85: json.dumps(data)
json_dumps_data(data) ==
    [username |-> data.username,
     languages |-> json_array_of_pairs(data.languages),
     topics |-> json_array_of_pairs(data.topics)]

\* cache_service.py 73: json.loads(data)
json_loads_data(text) ==
    [username |-> text.username,
     languages |-> py_of_array_of_pairs(text.languages),
     topics |-> py_of_array_of_pairs(text.topics)]

NoValue == [present |-> FALSE, text |-> <<>>]

PyNone == [some |-> FALSE, data |-> <<>>]

\* cache_service.py 65-77: None without a client, on an error and on a miss
cache_get_github_user_data(mode, store) ==
    IF mode = "absent" THEN PyNone
    ELSE IF mode = "failing" THEN PyNone
    ELSE IF store.present THEN [some |-> TRUE, data |-> json_loads_data(store.text)]
    ELSE PyNone

\* cache_service.py 79-90: the store after set_github_user_data, which
\* returns False without a client and on an error and never raises
cache_set_github_user_data(mode, store, data) ==
    IF mode = "working" THEN [present |-> TRUE, text |-> json_dumps_data(data)]
    ELSE store

\* the errors the live fetch fails with
LiveErrors ==
    { [name |-> "HTTPException", status |-> 404],
      [name |-> "HTTPException", status |-> 502],
      [name |-> "TimeoutError", status |-> 0] }

DBError == [name |-> "SQLAlchemyError", status |-> 0]

NoCallError == [name |-> "", status |-> 0]

IdleCall ==
    [pc |-> "idle", portfolio |-> "unbound", github_data |-> <<>>, error |-> NoCallError,
     live_failed |-> FALSE, faulted |-> FALSE]

NoDataOutcome ==
    [kind |-> "none", via |-> "", data |-> <<>>, status |-> 0, detail |-> "",
     live_failed |-> FALSE, faulted |-> FALSE, db |-> <<>>]

\* `return value`
ReturnsData(via, value, database) ==
    /\ gout' = [NoDataOutcome EXCEPT !.kind = "data", !.via = via, !.data = value,
                                 !.live_failed = gcall.live_failed,
                                 !.faulted = gcall.faulted, !.db = database]
    /\ gcall' = IdleCall

\* an exception leaves the method
Raises(kind, status, detail, database) ==
    /\ gout' = [NoDataOutcome EXCEPT !.kind = kind, !.status = status, !.detail = detail,
                                 !.live_failed = gcall.live_failed,
                                 !.faulted = TRUE, !.db = database]
    /\ gcall' = IdleCall

PortfolioInit ==
    /\ liveData \in LiveDatas
    /\ cacheMode \in {"absent", "working", "failing"}
    /\ cacheStore = NoValue
    /\ \E has \in BOOLEAN, snap \in {"none", "valid"} :
          /\ snap = "valid" => has
          /\ db = [portfolio |-> has, snapshot |-> snap,
                   data |-> IF snap = "valid" THEN json_dumps_data(liveData) ELSE <<>>]
    /\ gcall = IdleCall
    /\ gout = NoDataOutcome
    /\ gcount = 0
    /\ BatchIdle
    /\ SessionIdle
    /\ LLMIdle
    /\ ParserIdle
    /\ TransformIdle
    /\ AnalyzerIdle
    /\ LifecycleIdle

\* service.get_github_data(username, force_refresh), lines 158-161
StartCall ==
    /\ gcall.pc = "idle"
    /\ gcount < MaxFetches
    /\ \E force_refresh \in BOOLEAN :
          gcall' = [IdleCall EXCEPT !.pc = IF force_refresh THEN "fetch" ELSE "cache_get"]
    /\ gcount' = gcount + 1
    /\ gout' = NoDataOutcome
    /\ UNCHANGED <<liveData, cacheMode, cacheStore, db>>
    /\ UNCHANGED otherThanPortfolio

\* lines 162-165
CacheGet ==
    /\ gcall.pc = "cache_get"
    /\ LET cached_data == cache_get_github_user_data(cacheMode, cacheStore)
       IN  IF cached_data.some
           THEN /\ UNCHANGED db
                /\ ReturnsData("cache", cached_data.data, db)
           ELSE /\ gcall' = [gcall EXCEPT !.pc = "fetch"]
                /\ UNCHANGED <<gout, db>>
    /\ UNCHANGED <<liveData, cacheMode, cacheStore, gcount>>
    /\ UNCHANGED otherThanPortfolio

\* line 170: await get_complete_user_profile_graphql(username)
LiveFetch ==
    /\ gcall.pc = "fetch"
    /\ \/ gcall' = [gcall EXCEPT !.pc = "cache_set", !.github_data = liveData]
       \/ \E e \in LiveErrors :
             gcall' = [gcall EXCEPT !.pc = "except", !.error = e,
                                    !.live_failed = TRUE, !.faulted = TRUE]
    /\ UNCHANGED <<liveData, cacheMode, cacheStore, db, gout, gcount>>
    /\ UNCHANGED otherThanPortfolio

\* line 173
CacheSet ==
    /\ gcall.pc = "cache_set"
    /\ cacheStore' = cache_set_github_user_data(cacheMode, cacheStore, gcall.github_data)
    /\ gcall' = [gcall EXCEPT !.pc = "db_portfolio"]
    /\ UNCHANGED <<liveData, cacheMode, db, gout, gcount>>
    /\ UNCHANGED otherThanPortfolio

\* lines 176-177 and 180: the portfolio lookup, which the database may fail
GetPortfolio ==
    /\ gcall.pc = "db_portfolio"
    /\ \/ IF db.portfolio
          THEN /\ gcall' = [gcall EXCEPT !.pc = "db_save", !.portfolio = "some"]
               /\ UNCHANGED gout
          ELSE ReturnsData("live", gcall.github_data, db)
       \/ /\ gcall' = [gcall EXCEPT !.pc = "except", !.error = DBError, !.faulted = TRUE]
          /\ UNCHANGED gout
    /\ UNCHANGED <<liveData, cacheMode, cacheStore, db, gcount>>
    /\ UNCHANGED otherThanPortfolio

\* lines 178-180 and 191-204: save_snapshot, which the database may fail
SaveSnapshot ==
    /\ gcall.pc = "db_save"
    /\ \/ /\ db' = [db EXCEPT !.snapshot = "valid", !.data = json_dumps_data(gcall.github_data)]
          /\ ReturnsData("live", gcall.github_data, db')
       \/ /\ gcall' = [gcall EXCEPT !.pc = "except", !.error = DBError, !.faulted = TRUE]
          /\ UNCHANGED <<gout, db>>
    /\ UNCHANGED <<liveData, cacheMode, cacheStore, gcount>>
    /\ UNCHANGED otherThanPortfolio

\* lines 181-184 and 189: the handler reads the local `portfolio`, which is
\* bound only once line 176 has assigned it
ExceptHandler ==
    /\ gcall.pc = "except"
    /\ UNCHANGED db
    /\ IF gcall.portfolio = "unbound"
       THEN Raises("error", 0, "UnboundLocalError", db)
       ELSE IF gcall.portfolio = "some"
       THEN /\ gcall' = [gcall EXCEPT !.pc = "snapshot"]
            /\ UNCHANGED gout
       ELSE Raises("http", 500, "Failed to fetch GitHub data", db)
    /\ UNCHANGED <<liveData, cacheMode, cacheStore, gcount>>
    /\ UNCHANGED otherThanPortfolio

\* lines 185-189 and 206-217: the latest snapshot that has not expired
GetLatestSnapshot ==
    /\ gcall.pc = "snapshot"
    /\ UNCHANGED db
    /\ \/ IF db.snapshot = "valid"
          THEN ReturnsData("snapshot", json_loads_data(db.data), db)
          ELSE Raises("http", 500, "Failed to fetch GitHub data", db)
       \/ Raises("error", 0, DBError.name, db)
    /\ UNCHANGED <<liveData, cacheMode, cacheStore, gcount>>
    /\ UNCHANGED otherThanPortfolio

\* line 212: time passes expires_at of the snapshot, between two calls
SnapshotExpires ==
    /\ gcall.pc = "idle"
    /\ db.snapshot = "valid"
    /\ db' = [db EXCEPT !.snapshot = "expired"]
    /\ UNCHANGED <<liveData, cacheMode, cacheStore, gcall, gout, gcount>>
    /\ UNCHANGED otherThanPortfolio

PortfolioNext ==
    \/ StartCall
    \/ CacheGet
    \/ LiveFetch
    \/ CacheSet
    \/ GetPortfolio
    \/ SaveSnapshot
    \/ ExceptHandler
    \/ GetLatestSnapshot
    \/ SnapshotExpires

SpecPortfolio == PortfolioInit /\ [][PortfolioNext]_vars

-----------------------------------------------------------------------------
(* Properties of get_github_data *)

C28_SnapshotFallback ==
    (gout.kind # "none" /\ gout.live_failed) =>
        IF gout.db.portfolio /\ gout.db.snapshot = "valid"
        THEN gout.kind = "data" /\ gout.data = json_loads_data(gout.db.data)
        ELSE gout.kind = "http" /\ gout.status = 500
                 /\ gout.detail = "Failed to fetch GitHub data"

-----------------------------------------------------------------------------
\* The application lifespan (gitm8/main.py 19-107) and the LLM client helpers
\* (llm_service.py 433-467).

MaxGets == 2

\* llm_service.py 464-467
NotReady ==
    HTTPException(503, "GitM8 analysis service is not ready. Please try again in a moment.")

\* llm_service.py 450-468: the client, or the 503 when there is none
get_llm_client(client) ==
    IF client = "None" THEN [ok |-> FALSE, client |-> "None", error |-> NotReady]
    ELSE [ok |-> TRUE, client |-> client, error |-> HTTPException(0, "")]

LifecycleInit ==
    /\ phase = "start"
    /\ llm_client = "None"
    /\ lifeHist = "never"
    /\ gets = <<>>
    /\ BatchIdle
    /\ SessionIdle
    /\ LLMIdle
    /\ ParserIdle
    /\ TransformIdle
    /\ AnalyzerIdle
    /\ PortfolioIdle

\* main.py 27-33: validate_settings, which raises on a missing setting
ValidateSettings ==
    /\ phase = "start"
    /\ phase' \in {"db", "failed"}
    /\ UNCHANGED <<llm_client, lifeHist, gets>>
    /\ UNCHANGED otherThanLifecycle

\* main.py 35-55: init_db and the test query; a database error is re-raised
InitDatabase ==
    /\ phase = "db"
    /\ phase' \in {"session", "failed"}
    /\ UNCHANGED <<llm_client, lifeHist, gets>>
    /\ UNCHANGED otherThanLifecycle

\* main.py 57-79: the session is pre-created, a failure is only logged, and
\* the startup phase ends at the yield
PreCreateSession ==
    /\ phase = "session"
    /\ phase' = "running"
    /\ UNCHANGED <<llm_client, lifeHist, gets>>
    /\ UNCHANGED otherThanLifecycle

\* main.py 84: the server asks the lifespan to shut down
BeginShutdown ==
    /\ phase = "running"
    /\ phase' = "release"
    /\ UNCHANGED <<llm_client, lifeHist, gets>>
    /\ UNCHANGED otherThanLifecycle

\* main.py 88-95: release_session; if it raises, cleanup_llm_client is skipped
ReleaseSessionAtShutdown ==
    /\ phase = "release"
    /\ phase' \in {"cleanup", "dispose"}
    /\ UNCHANGED <<llm_client, lifeHist, gets>>
    /\ UNCHANGED otherThanLifecycle

\* main.py 92 and llm_service.py 443-447
CleanupLLMClient ==
    /\ phase = "cleanup"
    /\ llm_client' = "None"
    /\ lifeHist' = "cleanup"
    /\ phase' = "dispose"
    /\ UNCHANGED gets
    /\ UNCHANGED otherThanLifecycle

\* main.py 97-107
DisposeEngine ==
    /\ phase = "dispose"
    /\ phase' = "stopped"
    /\ UNCHANGED <<llm_client, lifeHist, gets>>
    /\ UNCHANGED otherThanLifecycle

\* llm_service.py 436-440: init_llm_client(session).  lifespan does not call
\* it and nothing else in the repository does; whoever imports the module may
\* call it at any time.
InitLLMClient ==
    /\ llm_client' = "AsyncGeminiClient"
    /\ lifeHist' = "init"
    /\ UNCHANGED <<phase, gets>>
    /\ UNCHANGED otherThanLifecycle

\* a request resolves the dependency get_llm_client
GetLLMClient ==
    /\ Len(gets) < MaxGets
    /\ gets' = Append(gets, [phase |-> phase, last |-> lifeHist,
                             result |-> get_llm_client(llm_client)])
    /\ UNCHANGED <<phase, llm_client, lifeHist>>
    /\ UNCHANGED otherThanLifecycle

LifecycleNext ==
    \/ ValidateSettings
    \/ InitDatabase
    \/ PreCreateSession
    \/ BeginShutdown
    \/ ReleaseSessionAtShutdown
    \/ CleanupLLMClient
    \/ DisposeEngine
    \/ InitLLMClient
    \/ GetLLMClient

SpecLifecycle == LifecycleInit /\ [][LifecycleNext]_vars

\* C30: a get_llm_client between the end of the startup phase and the
\* beginning of shutdown returns an initialized client, never the 503 'not
\* ready'; one before init_llm_client has run, or after cleanup_llm_client
\* has run, fails with that 503.
C30_ClientFollowsLifecycle ==
    \A i \in 1..Len(gets) :
        /\ gets[i].phase = "running" =>
              gets[i].result.ok /\ gets[i].result.client = "AsyncGeminiClient"
        /\ gets[i].last \in {"never", "cleanup"} =>
              ~gets[i].result.ok /\ gets[i].result.error = NotReady

=============================================================================
